---------------------------- MODULE Spec2Model ----------------------------
(***************************************************************************)
(* SwarmTorch core: replay guard (swarm-torch-core/src/replay.rs),         *)
(* authenticated envelope (swarm-torch-net/src/protocol.rs,                *)
(* swarm-torch-core/src/crypto.rs) and the DataOps session                 *)
(* (swarm-torch/src/artifacts.rs, swarm-torch-core/src/dataops.rs).        *)
(*                                                                         *)
(* The specifications share the variables below:                           *)
(*   Spec          the replay guard driven by validate_sequence calls      *)
(*   SpecHistory   the same, with the history of accepted sequences kept   *)
(*   SpecEnvelope  the guard driven by MessageEnvelope::verify_authenticated*)
(*   SpecDataOps   a DataOpsSession driven by register_source and          *)
(*                 materialize_node_outputs                                *)
(*   SpecLru       the guard under cache pressure (more peers than slots)  *)
(***************************************************************************)
EXTENDS Integers, Sequences, FiniteSets, TLC

VARIABLES
    capacity,        \* ReplayProtection.peer_state: LruCache capacity (NonZeroUsize)
    max_clock_skew_secs, \* ReplayProtection.max_clock_skew_secs
    peer_state,      \* LruCache contents: tracked PeerId -> PeerReplayState
    lru_order,       \* LruCache recency list, most recently used first
    accepted,        \* history: per peer, the sequences accepted (since its entry was created; in SpecLru, ever)
    last_call,       \* history: the last call made on the guard and what it returned
    registry,        \* DataOpsSession.registry: asset_key -> DatasetEntryV1
    lineage,         \* DataOpsSession.lineage: (in_fp, out_fp, node_id) -> LineageEdgeV1
    bundle,          \* the RunArtifactBundle the program holds, if create has returned one
    runs,            \* <base>/runs: run id of each run directory -> its files (path -> bytes)
    io_faults,       \* environment: sink operations that failed and files tampered with so far
    last_mat,        \* history: the last call made on the session or its bundle and what it returned
    writer,          \* the atomic_write in progress, if any, and how far it got
    lock,            \* RunArtifactSink.lock: the producer holding the mutex, or "free"
    producers,       \* each producer thread: where it is in its sink call
    acquired         \* history: the append calls in the order they acquired the lock

replay_vars == <<capacity, max_clock_skew_secs, peer_state, lru_order, accepted, last_call>>

dataops_vars == <<registry, lineage, bundle, runs, io_faults, last_mat>>

sink_vars == <<writer, lock, producers, acquired>>

vars == <<replay_vars, dataops_vars, sink_vars>>

-----------------------------------------------------------------------------
(* Integer widths.  u64 is scaled to U64_BITS bits so that the saturating   *)
(* operations have a reachable ceiling.                                     *)
U64_BITS == 24

U64_MAX == 2^U64_BITS - 1

\* u32 (timestamps, clock skew) is scaled to U32_BITS bits.
U32_BITS == 12

U32_MAX == 2^U32_BITS - 1

\* u32::abs_diff: the larger minus the smaller, which never leaves 0 ..= u32::MAX.
abs_diff(a, b) == IF a >= b THEN a - b ELSE b - a

\* The difference as a wrapping subtraction would give it.
abs_diff_wrapping(a, b) == (a - b) % 2^U32_BITS

\* The sum as a wrapping addition would give it.
wrapping_add(a, b) == (a + b) % 2^U64_BITS

saturating_add(a, b) == IF a > U64_MAX - b THEN U64_MAX ELSE a + b

saturating_sub(a, b) == IF a < b THEN 0 ELSE a - b

-----------------------------------------------------------------------------
(* replay.rs                                                                *)

SEQUENCE_TOLERANCE_WINDOW == 16

DEFAULT_MAX_CLOCK_SKEW_SECS == 60

\* Largest LRU capacity a guard is configured with (the default is 1000).
MaxCapacity == 2

\* How far past 20 the sequence inputs reach.
MaxAdvance == 1

Peers == {"pA", "pB"}

\* Sequence numbers presented to the guard: the window scenario of the unit
\* tests (20, 15, 10, 5, then 3), the edge 20 - 16 = 4, and a moving frontier.
SeqInputs == {3, 4, 5, 10, 15, 20} \cup (21 .. 20 + MaxAdvance)

Ok == [tag |-> "Ok"]

ReplayErr(peer, seq) == [tag |-> "Replay", peer |-> peer, seq |-> seq]

TooOldErr(peer, seq, last_seen) ==
    [tag |-> "TooOld", peer |-> peer, seq |-> seq, last_seen |-> last_seen]

ExpiredErr(ts, now, window) ==
    [tag |-> "Expired", ts |-> ts, now |-> now, window |-> window]

PeerReplayState_new(initial_seq) ==
    [last_sequence |-> initial_seq, recent_sequences |-> {initial_seq}]

\* A pruning that keeps the entry at the threshold.
prune_keeps_threshold(recent, threshold) == {s \in recent : s >= threshold}

prune_old_sequences(recent, threshold) == {s \in recent : s > threshold}

\* A too-old check that also rejects the sequence exactly one window behind.
validate_and_update_strict(st, seq, peer) ==
    IF seq \in st.recent_sequences
    THEN [result |-> ReplayErr(peer, seq), state |-> st]
    ELSE IF saturating_add(seq, SEQUENCE_TOLERANCE_WINDOW) <= st.last_sequence
    THEN [result |-> TooOldErr(peer, seq, st.last_sequence), state |-> st]
    ELSE LET inserted == st.recent_sequences \cup {seq}
             last == IF seq > st.last_sequence THEN seq ELSE st.last_sequence
         IN [result |-> Ok,
             state |-> [last_sequence |-> last,
                        recent_sequences |->
                            {s \in inserted :
                                s > saturating_sub(last, SEQUENCE_TOLERANCE_WINDOW)}]]

\* PeerReplayState::validate_and_update: the verdict and the state it leaves.
validate_and_update(st, seq, peer) ==
    IF seq \in st.recent_sequences
    THEN [result |-> ReplayErr(peer, seq), state |-> st]
    ELSE IF saturating_add(seq, SEQUENCE_TOLERANCE_WINDOW) < st.last_sequence
    THEN [result |-> TooOldErr(peer, seq, st.last_sequence), state |-> st]
    ELSE LET inserted == st.recent_sequences \cup {seq}
             last == IF seq > st.last_sequence THEN seq ELSE st.last_sequence
         IN [result |-> Ok,
             state |-> [last_sequence |-> last,
                        recent_sequences |->
                            prune_old_sequences(inserted,
                                saturating_sub(last, SEQUENCE_TOLERANCE_WINDOW))]]

\* LruCache::get_mut promotes a present key to most-recently-used.
lru_promote(order, peer) == <<peer>> \o SelectSeq(order, LAMBDA q : q # peer)

\* A cache that, when full, drops the most recently used entry.
lru_put_new_evicting_newest(order, cap, peer) ==
    IF Len(order) >= cap
    THEN <<peer>> \o SubSeq(order, 2, cap)
    ELSE <<peer>> \o order

\* LruCache::put of an absent key: evict the least recently used entry when full.
lru_put_new(order, cap, peer) ==
    IF Len(order) >= cap
    THEN <<peer>> \o SubSeq(order, 1, cap - 1)
    ELSE <<peer>> \o order

SeqRange(s) == {s[i] : i \in 1 .. Len(s)}

\* A guard that keeps one replay window for all the peers it tracks.
validate_sequence_shared_window(ps, order, cap, peer, seq) ==
    IF peer \in DOMAIN ps
    THEN LET r == validate_and_update(ps[peer], seq, peer)
         IN [result |-> r.result,
             peer_state |-> [q \in DOMAIN ps |-> r.state],
             lru_order |-> lru_promote(order, peer)]
    ELSE LET order2 == lru_put_new(order, cap, peer)
         IN [result |-> Ok,
             peer_state |-> [q \in SeqRange(order2) |-> PeerReplayState_new(seq)],
             lru_order |-> order2]

\* ReplayProtection::validate_sequence on guard (ps, order, cap).
validate_sequence(ps, order, cap, peer, seq) ==
    IF peer \in DOMAIN ps
    THEN LET r == validate_and_update(ps[peer], seq, peer)
         IN [result |-> r.result,
             peer_state |-> [ps EXCEPT ![peer] = r.state],
             lru_order |-> lru_promote(order, peer)]
    ELSE LET order2 == lru_put_new(order, cap, peer)
         IN [result |-> Ok,
             peer_state |-> [q \in SeqRange(order2) |->
                                IF q = peer THEN PeerReplayState_new(seq) ELSE ps[q]],
             lru_order |-> order2]

\* A freshness check whose difference wraps when ts is ahead of now.
is_timestamp_valid_wrapping(skew, ts, now) == abs_diff_wrapping(now, ts) <= skew

is_timestamp_valid(skew, ts, now) == abs_diff(now, ts) <= skew

check_timestamp_only(skew, ts, now) ==
    IF ~is_timestamp_valid(skew, ts, now) THEN ExpiredErr(ts, now, skew) ELSE Ok

-----------------------------------------------------------------------------
(* crypto.rs: Ed25519 over the canonical envelope preimage.  Hashing and    *)
(* signing are symbolic: a digest is the term it was computed from, and a   *)
(* signature names the key pair that made it and the digest it covers.      *)

KeyPairs == {"kA", "kB"}

\* KeyPair::from_seed: the raw 32-byte public key of each key pair.
KeyPublic == [k \in KeyPairs |-> IF k = "kA" THEN "pA" ELSE "pB"]

\* PeerId::from_public_key(kA.public): a hash of the key, not the key.
HashedPeerIdA == "hA"

\* 32 bytes that do not decode to a curve point.
NotAPoint == "zz"

\* The byte strings VerifyingKey::from_bytes accepts.
DecodablePoints == {KeyPublic[k] : k \in KeyPairs} \cup {HashedPeerIdA}

sha256(x) == [sha256 |-> x]

DS_TAG == "swarmtorch.envelope.v0"

\* A preimage that leaves the timestamp out.
canonical_preimage_without_timestamp(version, public_key, message_type, sequence, timestamp, payload) ==
    sha256(<<DS_TAG, version, public_key, sequence, message_type, sha256(payload)>>)

canonical_preimage(version, public_key, message_type, sequence, timestamp, payload) ==
    sha256(<<DS_TAG, version, public_key, sequence, timestamp, message_type,
             sha256(payload)>>)

MessageAuth_sign(k, version, message_type, sequence, timestamp, payload) ==
    [form |-> "ed25519", key |-> k,
     over |-> canonical_preimage(version, KeyPublic[k], message_type, sequence,
                                 timestamp, payload)]

\* 64 bytes that parse as a signature but were made by no key (0xFF..).
GarbageSignature == [form |-> "garbage", key |-> "none", over |-> sha256("none")]

\* 64 bytes that Signature::to_dalek rejects.
MalformedSignature == [form |-> "malformed", key |-> "none", over |-> sha256("none")]

MessageAuth_verify(public_key, version, message_type, sequence, timestamp, payload, signature) ==
    IF public_key \notin DecodablePoints
    THEN [tag |-> "InvalidPublicKey"]
    ELSE IF signature.form = "malformed"
    THEN [tag |-> "InvalidSignatureEncoding"]
    ELSE IF /\ signature.form = "ed25519"
            /\ KeyPublic[signature.key] = public_key
            /\ signature.over = canonical_preimage(version, public_key, message_type,
                                                   sequence, timestamp, payload)
    THEN Ok
    ELSE [tag |-> "VerificationFailed"]

-----------------------------------------------------------------------------
(* protocol.rs: MessageEnvelope                                             *)

CURRENT_VERSION == <<0, 1>>

SUPPORTED_VERSIONS == {CURRENT_VERSION}

\* MessageType as u8
Heartbeat == 4

GradientUpdate == 1

NoSignature == [present |-> FALSE, len |-> 0, sig |-> GarbageSignature]

SignatureBytes(len, sig) == [present |-> TRUE, len |-> len, sig |-> sig]

is_version_supported(env) == env.version \in SUPPORTED_VERSIONS

UnsupportedVersionErr(version) ==
    [tag |-> "UnsupportedVersion", major |-> version[1], minor |-> version[2]]

\* Stage 0 of verify_authenticated: the version check.
check_version(env) ==
    IF ~is_version_supported(env) THEN UnsupportedVersionErr(env.version) ELSE Ok

\* Stage 2 of verify_authenticated: signature presence, length, Ed25519.
check_signature(env) ==
    IF ~env.signature.present
    THEN [tag |-> "MissingSignature"]
    ELSE IF env.signature.len # 64
    THEN [tag |-> "InvalidSignatureLength", expected |-> 64,
          found |-> env.signature.len]
    ELSE LET v == MessageAuth_verify(env.sender, env.version, env.message_type,
                                     env.sequence, env.timestamp, env.payload,
                                     env.signature.sig)
         IN IF v # Ok THEN [tag |-> "Crypto", inner |-> v] ELSE Ok

\* A verifier that checks the signature before the timestamp.
verify_authenticated_signature_first(env, ps, order, cap, skew, current_time) ==
    LET unchanged(res) == [result |-> res, peer_state |-> ps, lru_order |-> order]
        ts == check_timestamp_only(skew, env.timestamp, current_time)
    IN IF check_version(env) # Ok THEN unchanged(check_version(env))
       ELSE IF check_signature(env) # Ok THEN unchanged(check_signature(env))
       ELSE IF ts # Ok THEN unchanged([tag |-> "Replay", inner |-> ts])
       ELSE LET r == validate_sequence(ps, order, cap, env.sender, env.sequence)
            IN [result |-> IF r.result # Ok
                           THEN [tag |-> "Replay", inner |-> r.result]
                           ELSE Ok,
                peer_state |-> r.peer_state,
                lru_order |-> r.lru_order]

\* A verifier that updates the replay guard before it checks the signature.
verify_authenticated_replay_first(env, ps, order, cap, skew, current_time) ==
    LET unchanged(res) == [result |-> res, peer_state |-> ps, lru_order |-> order]
        ts == check_timestamp_only(skew, env.timestamp, current_time)
        r == validate_sequence(ps, order, cap, env.sender, env.sequence)
    IN IF check_version(env) # Ok THEN unchanged(check_version(env))
       ELSE IF ts # Ok THEN unchanged([tag |-> "Replay", inner |-> ts])
       ELSE IF r.result # Ok THEN unchanged([tag |-> "Replay", inner |-> r.result])
       ELSE [result |-> check_signature(env),
             peer_state |-> r.peer_state,
             lru_order |-> r.lru_order]

\* MessageEnvelope::verify_authenticated on guard (ps, order, cap, skew):
\* the result and the guard it leaves.
verify_authenticated(env, ps, order, cap, skew, current_time) ==
    LET unchanged(res) == [result |-> res, peer_state |-> ps, lru_order |-> order]
        ts == check_timestamp_only(skew, env.timestamp, current_time)
    IN IF check_version(env) # Ok THEN unchanged(check_version(env))
       ELSE IF ts # Ok THEN unchanged([tag |-> "Replay", inner |-> ts])
       ELSE IF check_signature(env) # Ok THEN unchanged(check_signature(env))
       ELSE LET r == validate_sequence(ps, order, cap, env.sender, env.sequence)
            IN [result |-> IF r.result # Ok
                           THEN [tag |-> "Replay", inner |-> r.result]
                           ELSE Ok,
                peer_state |-> r.peer_state,
                lru_order |-> r.lru_order]

\* Envelopes presented to the verifier: every envelope a key pair signs over
\* the inputs below, and each of them with one field or the signature changed
\* after signing.
EnvVersions == {CURRENT_VERSION, <<9, 9>>}

EnvSeqs == {1, 20}

EnvTimestamps == {940, 1061}

EnvNow == {1000}

EnvSenders == DecodablePoints \cup {NotAPoint}

signed_envelope(k, version, sequence, timestamp) ==
    [version |-> version, message_type |-> Heartbeat, sender |-> KeyPublic[k],
     sequence |-> sequence, timestamp |-> timestamp, payload |-> "test",
     signature |-> SignatureBytes(64,
         MessageAuth_sign(k, version, Heartbeat, sequence, timestamp, "test"))]

SignedEnvelopes ==
    {signed_envelope(k, v, s, t) :
        k \in KeyPairs, v \in EnvVersions, s \in EnvSeqs, t \in EnvTimestamps}

Tampered(e) ==
    {[e EXCEPT !.payload = "tampered"], [e EXCEPT !.message_type = GradientUpdate]}
    \cup {[e EXCEPT !.sequence = s] : s \in EnvSeqs}
    \cup {[e EXCEPT !.timestamp = t] : t \in EnvTimestamps}
    \cup {[e EXCEPT !.version = v] : v \in EnvVersions}
    \cup {[e EXCEPT !.sender = x] : x \in EnvSenders}
    \cup {[e EXCEPT !.signature = g] :
            g \in {NoSignature, SignatureBytes(32, e.signature.sig),
                   SignatureBytes(64, GarbageSignature),
                   SignatureBytes(64, MalformedSignature)}}

Envelopes == UNION {Tampered(e) : e \in SignedEnvelopes}

-----------------------------------------------------------------------------
(* dataops.rs, run_graph.rs: fingerprints.  A digest is the term it was     *)
(* computed from; a hex string records the bytes it encodes, its length in  *)
(* characters and its case.                                                 *)
DATAOPS_SCHEMA_V1 == 1

None == [some |-> FALSE]

Some(v) == [some |-> TRUE, value |-> v]

\* [u8; 32] for a SHA-256 digest, [u8; 16] for a NodeId
byte_len(bytes) == IF "sha256" \in DOMAIN bytes THEN 32 ELSE 16

hex_lower(bytes) == [hex |-> bytes, len |-> 2 * byte_len(bytes), lower |-> TRUE]

\* Accepts exactly 64 hex digits of either case.
hex_to_bytes(hex) == IF hex.len # 64 THEN None ELSE Some(hex.hex)

sha256_postcard(value) == sha256([postcard |-> value])

\* A string is its text with its case and surrounding whitespace.
Str(text) == [text |-> text, lower |-> TRUE, padded |-> FALSE]

normalize_trim(s) == [s EXCEPT !.padded = FALSE]

normalize_lower(s) == [s EXCEPT !.padded = FALSE, !.lower = TRUE]

\* A URI is scheme://[userinfo@]rest; userinfo "" when there is none.
redact_uri_userinfo(uri) ==
    IF uri.userinfo = "" THEN uri ELSE [uri EXCEPT !.userinfo = "<redacted>"]

normalize_and_redact_source_descriptor(source) ==
    [uri |-> [redact_uri_userinfo(source.uri) EXCEPT !.padded = FALSE],
     content_type |-> normalize_lower(source.content_type),
     auth_mode |-> source.auth_mode,
     etag_or_version |-> IF source.etag_or_version.some
                         THEN Some(normalize_trim(source.etag_or_version.value))
                         ELSE None]

MAX_SOURCE_URI_LEN == 2048

MAX_ETAG_OR_VERSION_LEN == 512

\* str::len of a string; the surrounding whitespace of a padded string is one
\* byte on each side.
str_len(s) == Len(s.text) + (IF s.padded THEN 2 ELSE 0)

\* str::len of scheme://[userinfo@]rest
uri_len(uri) ==
    Len(uri.scheme) + 3 + (IF uri.userinfo = "" THEN 0 ELSE Len(uri.userinfo) + 1)
        + Len(uri.rest) + (IF uri.padded THEN 2 ELSE 0)

sanitize_source_descriptor_v0(source) ==
    LET sanitized == normalize_and_redact_source_descriptor(source)
    IN IF uri_len(sanitized.uri) > MAX_SOURCE_URI_LEN
       THEN [ok |-> FALSE, err |-> "UriTooLong"]
       ELSE IF /\ sanitized.etag_or_version.some
               /\ str_len(sanitized.etag_or_version.value) > MAX_ETAG_OR_VERSION_LEN
       THEN [ok |-> FALSE, err |-> "EtagOrVersionTooLong"]
       ELSE [ok |-> TRUE, value |-> sanitized]

source_fingerprint_v0(source) ==
    LET s == normalize_and_redact_source_descriptor(source)
    IN sha256_postcard([uri |-> s.uri,
                        content_type |-> normalize_lower(s.content_type),
                        auth_mode |-> s.auth_mode,
                        etag_or_version |-> s.etag_or_version])

schema_hash_v0(schema) ==
    sha256_postcard([format |-> normalize_lower(schema.format),
                     canonical |-> normalize_trim(schema.canonical)])

no_schema_hash_v0 == sha256_postcard([str |-> "no_schema_v0"])

derived_source_fingerprint_v0(asset_key) == sha256_postcard([derived_v0 |-> asset_key])

\* execution_trust, node_key and node_id are not part of the definition hash.
node_def_hash_v1(node) ==
    sha256([postcard |-> [schema_version |-> 1,
                          op_kind |-> node.op_kind,
                          op_type |-> node.op_type,
                          code_ref |-> IF node.code_ref.some THEN node.code_ref.value
                                       ELSE "",
                          inputs |-> node.inputs,
                          outputs |-> node.outputs,
                          params |-> node.params]])

node_id_from_key(node_key) == [sha256_16 |-> node_key]

recipe_hash_v0(node, upstream_fingerprints) ==
    sha256_postcard([node_def_hash |-> node_def_hash_v1(node),
                     upstream_fingerprints |-> upstream_fingerprints])

dataset_fingerprint_v0(source_fingerprint, schema_hash, recipe_hash) ==
    sha256_postcard([source_fingerprint |-> source_fingerprint,
                     schema_hash |-> schema_hash,
                     recipe_hash |-> recipe_hash])

-----------------------------------------------------------------------------
(* artifacts.rs: DataOpsSession                                             *)
InvalidInput(msg, asset_key) == [tag |-> "InvalidInput", msg |-> msg, asset_key |-> asset_key]

InvalidData(msg, asset_key) == [tag |-> "InvalidData", msg |-> msg, asset_key |-> asset_key]

\* The error of a sink operation that failed, named by the file it was writing.
IoFailure(file) == [tag |-> "Io", file |-> file]

\* BTreeMap::insert
map_insert(m, k, v) == [x \in DOMAIN m \cup {k} |-> IF x = k THEN v ELSE m[x]]

\* BTreeMap<String, _> iterates in ascending key order.
KeyOrder == <<"dataset://ns/clean", "dataset://ns/raw", "dataset://ns/right">>

AssetKeys == {KeyOrder[i] : i \in DOMAIN KeyOrder}

\* DatasetRegistryV1 { datasets: registry.values().cloned().collect() }
registry_snapshot(reg) ==
    LET present == SelectSeq(KeyOrder, LAMBDA k : k \in DOMAIN reg)
    IN [schema_version |-> DATAOPS_SCHEMA_V1,
        datasets |-> [i \in DOMAIN present |-> reg[present[i]]]]

\* The byte order of two hex strings.  The bytes of a digest are not modelled,
\* so a fixed total order on the terms stands for it.
hex_less(a, b) == a # b /\ (CHOOSE x \in {a, b} : TRUE) = a

\* Ord for (String, String, String): lexicographic
edge_key_less(k, h) ==
    \/ hex_less(k[1], h[1])
    \/ k[1] = h[1] /\ hex_less(k[2], h[2])
    \/ k[1] = h[1] /\ k[2] = h[2] /\ hex_less(k[3], h[3])

\* BTreeMap<(String, String, String), _> iterates in ascending key order.
RECURSIVE ascending_keys(_)
ascending_keys(keys) ==
    IF keys = {} THEN << >>
    ELSE LET first == CHOOSE k \in keys : \A h \in keys \ {k} : edge_key_less(k, h)
         IN <<first>> \o ascending_keys(keys \ {first})

\* DatasetLineageV1 { edges: lineage.values().cloned().collect() }
lineage_snapshot(lin) ==
    LET order == ascending_keys(DOMAIN lin)
    IN [schema_version |-> DATAOPS_SCHEMA_V1,
        edges |-> [i \in DOMAIN order |-> lin[order[i]]]]

\* serde_json::to_vec_pretty of a document with one list: the bytes are an
\* opening part with the scalar fields, one part per list item and a closing
\* part; the size of a file is its number of parts.
to_vec_pretty(head, items) ==
    <<[head |-> head]>> \o [i \in DOMAIN items |-> [item |-> items[i]]] \o <<[tail |-> "}"]>>

registry_to_vec_pretty(r) == to_vec_pretty([schema_version |-> r.schema_version], r.datasets)

lineage_to_vec_pretty(l) == to_vec_pretty([schema_version |-> l.schema_version], l.edges)

-----------------------------------------------------------------------------
(* The run artifact bundle (artifacts.rs): the files under                  *)
(* <base>/runs/<run_id>/, the manifest over them and its validation.        *)

Min(S) == CHOOSE x \in S : \A y \in S : x <= y

SCHEMA_VERSION_V1 == 1

GRAPH_SCHEMA_V1 == 1

\* RunId([u8; 16]): the all-zero id and the id of the unit tests.
ZeroRunId == 0

TestRunId == 171

RunIds == {ZeroRunId, TestRunId}

\* RunId as Display prints it: 32 hex digits
run_id_to_string(run_id) == [hex |-> run_id, len |-> 32, lower |-> TRUE]

\* RunId::is_valid
is_valid(run_id) == run_id # ZeroRunId

\* A path below the run directory: its directories, the name of the file, and
\* whether the file name carries the suffix ".tmp".
Path(dir, name) == [dir |-> dir, name |-> name, tmp |-> FALSE]

RUN_JSON == Path(<< >>, "run.json")

GRAPH_JSON == Path(<< >>, "graph.json")

SPANS_NDJSON == Path(<< >>, "spans.ndjson")

EVENTS_NDJSON == Path(<< >>, "events.ndjson")

METRICS_NDJSON == Path(<< >>, "metrics.ndjson")

REGISTRY_JSON == Path(<<"datasets">>, "registry.json")

LINEAGE_JSON == Path(<<"datasets">>, "lineage.json")

MATERIALIZATIONS_NDJSON == Path(<<"datasets">>, "materializations.ndjson")

MANIFEST_JSON == Path(<< >>, "manifest.json")

\* rel_path_string: the components joined by "/"
rel_path_string(path) ==
    path.dir \o <<path.name>> \o (IF path.tmp THEN <<".tmp">> ELSE << >>)

\* run_dir.join(rel)
run_dir_join(rel) ==
    LET tmp == rel[Len(rel)] = ".tmp"
        n == IF tmp THEN Len(rel) - 1 ELSE Len(rel)
    IN [dir |-> SubSeq(rel, 1, n - 1), name |-> rel[n], tmp |-> tmp]

required_paths_v1 ==
    <<rel_path_string(RUN_JSON), rel_path_string(GRAPH_JSON),
      rel_path_string(SPANS_NDJSON), rel_path_string(EVENTS_NDJSON),
      rel_path_string(METRICS_NDJSON), rel_path_string(REGISTRY_JSON),
      rel_path_string(LINEAGE_JSON), rel_path_string(MATERIALIZATIONS_NDJSON)>>

is_required_path_v1(p) == \E i \in DOMAIN required_paths_v1 : required_paths_v1[i] = p

\* Files other than the baseline ones that a run directory may hold: a model
\* artifact, and an artifact that happens to be named manifest.json.
MODEL_BIN == Path(<<"artifacts">>, "model.bin")

NESTED_MANIFEST == Path(<<"artifacts", "deep">>, "manifest.json")

\* String::cmp on the relative paths of the model: ascending byte order
\* ('.' < '/' < letters).
PathOrder ==
    <<rel_path_string(NESTED_MANIFEST), rel_path_string(MODEL_BIN),
      rel_path_string(LINEAGE_JSON), rel_path_string(MATERIALIZATIONS_NDJSON),
      rel_path_string(REGISTRY_JSON), rel_path_string(EVENTS_NDJSON),
      rel_path_string(GRAPH_JSON), rel_path_string(MANIFEST_JSON),
      rel_path_string(METRICS_NDJSON), rel_path_string(RUN_JSON),
      rel_path_string(SPANS_NDJSON)>>

\* io::Error::new(kind, msg)
io_error(kind, msg) == [tag |-> kind, msg |-> msg]

\* fs::remove of one file of a directory
remove_file(fs, path) == [p \in DOMAIN fs \ {path} |-> fs[p]]

\* path.with_file_name(format!("{file_name}.tmp"))
tmp_path(path) == [path EXCEPT !.tmp = TRUE]

\* The file that write_all fills: a write in place fills the destination.
write_target_in_place(path) == path

\* atomic_write fills <name>.tmp
write_target(path) == tmp_path(path)

\* File::create(&tmp_path): the file exists and is empty
atomic_write_create(fs, path) == map_insert(fs, write_target(path), << >>)

\* f.write_all(bytes), as far as its first n parts
atomic_write_write(fs, path, bytes, n) ==
    map_insert(fs, write_target(path), SubSeq(bytes, 1, n))

\* fs::rename(&tmp_path, path)
atomic_write_rename(fs, path) ==
    IF write_target(path) = path THEN fs
    ELSE map_insert(remove_file(fs, write_target(path)), path, fs[write_target(path)])

atomic_write(fs, path, bytes) ==
    atomic_write_rename(
        atomic_write_write(atomic_write_create(fs, path), path, bytes, Len(bytes)), path)

\* A document with scalar fields and one list, as write_json_pretty_atomic
\* and read_json see it.
Doc(head, items) == [head |-> head, items |-> items]

write_json_pretty_atomic(fs, path, value) ==
    atomic_write(fs, path, to_vec_pretty(value.head, value.items))

\* serde_json::from_reader: the bytes parse when they are a whole document.
from_reader(bytes) ==
    IF /\ Len(bytes) >= 2
       /\ DOMAIN bytes[1] = {"head"}
       /\ DOMAIN bytes[Len(bytes)] = {"tail"}
       /\ \A i \in 2 .. Len(bytes) - 1 : DOMAIN bytes[i] = {"item"}
    THEN Some(Doc(bytes[1].head, [i \in 1 .. Len(bytes) - 2 |-> bytes[i + 1].item]))
    ELSE None

read_json(fs, path) ==
    IF path \notin DOMAIN fs THEN [result |-> io_error("NotFound", "open")]
    ELSE IF ~from_reader(fs[path]).some THEN [result |-> io_error("Other", "parse")]
    ELSE [result |-> Ok, value |-> from_reader(fs[path]).value]

\* ensure_file: create the file empty unless it exists
ensure_file(fs, path) == IF path \in DOMAIN fs THEN fs ELSE map_insert(fs, path, << >>)

\* append_ndjson: one line, the record and its newline, in one write_all
append_ndjson(fs, path, record) ==
    map_insert(fs, path, (IF path \in DOMAIN fs THEN fs[path] ELSE << >>) \o <<record>>)

\* The regular files below the run directory whose name does not end in .tmp
collect_files_recursive(fs) == {p \in DOMAIN fs : ~p.tmp}

\* SHA-256 of the bytes of a file, read in chunks
sha256_file(fs, path) == sha256(fs[path])

manifest_entry(fs, path) ==
    [path |-> rel_path_string(path),
     sha256 |-> hex_lower(sha256_file(fs, path)),
     bytes |-> Len(fs[path]),
     required |-> is_required_path_v1(rel_path_string(path))]

\* A manifest that leaves out only the file at the root of the bundle.
listed_files_all_but_own(fs) == collect_files_recursive(fs) \ {MANIFEST_JSON}

\* The files finalize_manifest writes an entry for: every collected file not
\* named manifest.json.
listed_files(fs) == {p \in collect_files_recursive(fs) : p.name # "manifest.json"}

\* entries.sort_by(|a, b| a.path.cmp(&b.path))
sorted_entries(fs, listed) ==
    LET rels == SelectSeq(PathOrder, LAMBDA r : run_dir_join(r) \in listed)
    IN [i \in DOMAIN rels |-> manifest_entry(fs, run_dir_join(rels[i]))]

ManifestV1(run_id, entries) ==
    Doc([schema_version |-> SCHEMA_VERSION_V1, run_id |-> run_id, hash_algo |-> "sha256"],
        entries)

finalize_manifest(fs, run_id) ==
    LET missing == {i \in DOMAIN required_paths_v1 :
                       run_dir_join(required_paths_v1[i]) \notin DOMAIN fs}
    IN IF missing # {}
       THEN [result |-> io_error("NotFound", required_paths_v1[Min(missing)]), files |-> fs]
       ELSE [result |-> Ok,
             files |-> write_json_pretty_atomic(fs, MANIFEST_JSON,
                           ManifestV1(run_id, sorted_entries(fs, listed_files(fs))))]

\* A validation that compares sizes only.
validate_entry_size_only(fs, entry) ==
    LET path == run_dir_join(entry.path)
    IN IF path \notin DOMAIN fs THEN io_error("NotFound", entry.path)
       ELSE IF Len(fs[path]) # entry.bytes THEN io_error("InvalidData", "size mismatch")
       ELSE Ok

\* validate_manifest on one entry: present, size, SHA-256
validate_entry(fs, entry) ==
    LET path == run_dir_join(entry.path)
    IN IF path \notin DOMAIN fs THEN io_error("NotFound", entry.path)
       ELSE IF Len(fs[path]) # entry.bytes THEN io_error("InvalidData", "size mismatch")
       ELSE IF hex_lower(sha256_file(fs, path)) # entry.sha256
       THEN io_error("InvalidData", "sha256 mismatch")
       ELSE Ok

validate_manifest(fs, run_id) ==
    LET manifest == read_json(fs, MANIFEST_JSON)
    IN IF manifest.result.tag # "Ok" THEN manifest.result
       ELSE IF manifest.value.head.schema_version # SCHEMA_VERSION_V1
       THEN io_error("InvalidData", "unsupported manifest schema_version")
       ELSE IF manifest.value.head.run_id # run_id
       THEN io_error("InvalidData", "manifest run_id mismatch")
       ELSE IF manifest.value.head.hash_algo # "sha256"
       THEN io_error("InvalidData", "unsupported hash algorithm")
       ELSE LET entries == manifest.value.items
                bad == {i \in DOMAIN entries : validate_entry(fs, entries[i]).tag # "Ok"}
            IN IF bad = {} THEN Ok ELSE validate_entry(fs, entries[Min(bad)])

RunFileV1(run_id, created_unix_nanos) ==
    Doc([schema_version |-> SCHEMA_VERSION_V1, run_id |-> run_id,
         created_unix_nanos |-> created_unix_nanos, swarmtorch_version |-> "0.1.0"], << >>)

\* GraphV1 { graph_id, nodes, .. }
GraphV1(graph_id, nodes) ==
    Doc([schema_version |-> GRAPH_SCHEMA_V1, graph_id |-> graph_id], nodes)

\* The baseline files create writes before the initial manifest.
baseline_files(run_id, created_unix_nanos) ==
    LET f1 == write_json_pretty_atomic(<< >>, RUN_JSON, RunFileV1(run_id, created_unix_nanos))
        f2 == write_json_pretty_atomic(f1, GRAPH_JSON, GraphV1(Some(run_id_to_string(run_id)), << >>))
        f3 == write_json_pretty_atomic(f2, REGISTRY_JSON,
                  Doc([schema_version |-> DATAOPS_SCHEMA_V1], << >>))
        f4 == write_json_pretty_atomic(f3, LINEAGE_JSON,
                  Doc([schema_version |-> DATAOPS_SCHEMA_V1], << >>))
    IN ensure_file(ensure_file(ensure_file(ensure_file(f4, SPANS_NDJSON), EVENTS_NDJSON),
                               METRICS_NDJSON), MATERIALIZATIONS_NDJSON)

\* RunArtifactBundle { run_dir, run_id }
RunArtifactBundle(run_id) == [run_dir |-> run_id, run_id |-> run_id]

\* A create that replaces a run directory that exists.
create_overwriting(dirs, run_id, created_unix_nanos, fail) ==
    IF ~is_valid(run_id)
    THEN [result |-> io_error("InvalidInput", "run_id must be non-zero"), runs |-> dirs]
    ELSE IF fail
    THEN [result |-> IoFailure("run.json"), runs |-> map_insert(dirs, run_id, << >>)]
    ELSE LET f == finalize_manifest(baseline_files(run_id, created_unix_nanos), run_id)
         IN [result |-> f.result, runs |-> map_insert(dirs, run_id, f.files)]

\* RunArtifactBundle::create on the directory <base>/runs (a map from the run
\* ids that have a directory to the files in it).  fail: the first write
\* after the directories were created fails.
create(dirs, run_id, created_unix_nanos, fail) ==
    IF ~is_valid(run_id)
    THEN [result |-> io_error("InvalidInput", "run_id must be non-zero"), runs |-> dirs]
    ELSE IF run_id \in DOMAIN dirs
    THEN [result |-> io_error("AlreadyExists", "run artifact bundle already exists"),
          runs |-> dirs]
    ELSE IF fail
    THEN [result |-> IoFailure("run.json"), runs |-> map_insert(dirs, run_id, << >>)]
    ELSE LET f == finalize_manifest(baseline_files(run_id, created_unix_nanos), run_id)
         IN [result |-> f.result, runs |-> map_insert(dirs, run_id, f.files)]

-----------------------------------------------------------------------------
(* The session (artifacts.rs, DataOpsSession)                               *)

\* A flush that rewrites registry.json only.
flush_snapshots_registry_only(reg, lin, reg_json, lin_json, fail) ==
    IF fail = 1
    THEN [result |-> IoFailure("registry.json"), registry_json |-> reg_json,
          lineage_json |-> lin_json]
    ELSE [result |-> IF fail = 2 THEN IoFailure("lineage.json") ELSE Ok,
          registry_json |-> registry_to_vec_pretty(registry_snapshot(reg)),
          lineage_json |-> lin_json]

\* flush_snapshots: registry.json, then lineage.json; the first failure
\* returns.  fail names the write that fails: 0 none, 1 registry, 2 lineage.
flush_snapshots(reg, lin, reg_json, lin_json, fail) ==
    IF fail = 1
    THEN [result |-> IoFailure("registry.json"), registry_json |-> reg_json,
          lineage_json |-> lin_json]
    ELSE IF fail = 2
    THEN [result |-> IoFailure("lineage.json"),
          registry_json |-> registry_to_vec_pretty(registry_snapshot(reg)),
          lineage_json |-> lin_json]
    ELSE [result |-> Ok,
          registry_json |-> registry_to_vec_pretty(registry_snapshot(reg)),
          lineage_json |-> lineage_to_vec_pretty(lineage_snapshot(lin))]

\* register_source(asset_key, trust, source, schema, ingest_node)
source_entry(asset_key, trust, source, schema, ingest_node) ==
    LET source_fp == source_fingerprint_v0(source)
        schema_fp == IF schema.some THEN schema_hash_v0(schema.value) ELSE no_schema_hash_v0
        recipe == recipe_hash_v0(ingest_node, << >>)
    IN [asset_key |-> asset_key,
        fingerprint_v0 |-> hex_lower(dataset_fingerprint_v0(source_fp, schema_fp, recipe)),
        source_fingerprint_v0 |-> hex_lower(source_fp),
        schema_hash_v0 |-> hex_lower(schema_fp),
        recipe_hash_v0 |-> hex_lower(recipe),
        trust |-> trust,
        source |-> Some(source),
        schema |-> schema,
        license_flags |-> << >>,
        pii_tags |-> << >>]

register_source(reg, lin, reg_json, lin_json, asset_key, trust, source, schema, ingest_node, fail) ==
    LET reg2 == map_insert(reg, asset_key,
                           source_entry(asset_key, trust, source, schema, ingest_node))
        f == flush_snapshots(reg2, lin, reg_json, lin_json, fail)
    IN [result |-> f.result, registry |-> reg2, lineage |-> lin,
        registry_json |-> f.registry_json, lineage_json |-> f.lineage_json]

\* 1. the first output whose asset_key an earlier output already named
duplicate_output(outputs) ==
    LET Dup == {j \in DOMAIN outputs :
                   \E i \in 1 .. j - 1 : outputs[i].asset_key = outputs[j].asset_key}
    IN IF Dup = {} THEN Ok
       ELSE InvalidInput("duplicate output asset_key", outputs[Min(Dup)].asset_key)

\* 2. the first output that node.outputs does not declare
undeclared_output(node, outputs) ==
    LET declared == {node.outputs[i].asset_key : i \in DOMAIN node.outputs}
        Und == {j \in DOMAIN outputs : outputs[j].asset_key \notin declared}
    IN IF Und = {} THEN Ok
       ELSE InvalidInput("output not declared in node.outputs", outputs[Min(Und)].asset_key)

validate_outputs_contract_first(node, outputs) ==
    IF undeclared_output(node, outputs).tag # "Ok" THEN undeclared_output(node, outputs)
    ELSE duplicate_output(outputs)

validate_outputs(node, outputs) ==
    IF duplicate_output(outputs).tag # "Ok" THEN duplicate_output(outputs)
    ELSE undeclared_output(node, outputs)

\* 3. every declared input exists with a valid fingerprint; the loop returns
\* at the first input that fails, and otherwise collects the snapshots.
snapshot_inputs(reg, node) ==
    LET key(i) == node.inputs[i].asset_key
        Bad == {i \in DOMAIN node.inputs :
                   \/ key(i) \notin DOMAIN reg
                   \/ ~hex_to_bytes(reg[key(i)].fingerprint_v0).some}
    IN IF Bad # {}
       THEN [result |-> IF key(Min(Bad)) \notin DOMAIN reg
                        THEN InvalidInput("missing input asset", key(Min(Bad)))
                        ELSE InvalidData("invalid fingerprint for input asset", key(Min(Bad)))]
       ELSE [result |-> Ok,
             upstream_fps |-> [i \in DOMAIN node.inputs |->
                                  hex_to_bytes(reg[key(i)].fingerprint_v0).value],
             input_snapshots |-> [i \in DOMAIN node.inputs |->
                                     <<key(i), reg[key(i)].fingerprint_v0>>],
             any_untrusted_input |-> \E i \in DOMAIN node.inputs :
                                        reg[key(i)].trust = "Untrusted"]

output_trust_inputs_only(any_untrusted_input, execution_trust) ==
    IF any_untrusted_input THEN "Untrusted" ELSE "Trusted"

\* 5. output trust
output_trust(any_untrusted_input, execution_trust) ==
    IF any_untrusted_input \/ execution_trust # "Core" THEN "Untrusted" ELSE "Trusted"

edge_input_fingerprint_live(snapshot, reg) == reg[snapshot[1]].fingerprint_v0

\* 7. the input fingerprint of an edge is the one snapshotted before the loop
edge_input_fingerprint(snapshot, reg) == snapshot[2]

\* 6. the registry entry of a derived output
derived_entry(output, recipe, trust) ==
    LET schema_fp == IF output.schema.some THEN schema_hash_v0(output.schema.value)
                     ELSE no_schema_hash_v0
        source_fp == derived_source_fingerprint_v0(output.asset_key)
    IN [asset_key |-> output.asset_key,
        fingerprint_v0 |-> hex_lower(dataset_fingerprint_v0(source_fp, schema_fp, recipe)),
        source_fingerprint_v0 |-> hex_lower(source_fp),
        schema_hash_v0 |-> hex_lower(schema_fp),
        recipe_hash_v0 |-> hex_lower(recipe),
        trust |-> trust,
        source |-> None,
        schema |-> output.schema,
        license_flags |-> << >>,
        pii_tags |-> << >>]

\* 7. lineage.insert for every input snapshot; reg is the registry after the
\* output's entry was inserted.
lineage_insert_edges(lin, reg, input_snapshots, fp_hex, node_id, op_kind) ==
    LET NewKeys == {<<edge_input_fingerprint(input_snapshots[i], reg), fp_hex,
                      hex_lower(node_id)>> : i \in DOMAIN input_snapshots}
    IN [k \in DOMAIN lin \cup NewKeys |->
           IF k \in NewKeys
           THEN [input_fingerprint_v0 |-> k[1], output_fingerprint_v0 |-> k[2],
                 node_id |-> node_id, op_kind |-> op_kind]
           ELSE lin[k]]

\* 8. MaterializationRecordV1
materialization_record(output, fp_hex, c) ==
    [schema_version |-> DATAOPS_SCHEMA_V1,
     ts_unix_nanos |-> c.ts_unix_nanos,
     asset_key |-> output.asset_key,
     fingerprint_v0 |-> fp_hex,
     node_id |-> c.node_id,
     node_def_hash |-> c.node_hash,
     rows |-> output.rows,
     bytes |-> output.bytes,
     cache_hit |-> Some(c.cache_hit),
     duration_ms |-> Some(c.duration_ms),
     quality_flags |-> None,
     unsafe_surface |-> c.unsafe_surface]

\* A loop that treats an output whose entry is already in the registry as a
\* cache hit and appends no record for it.
RECURSIVE emit_outputs_skipping_known(_, _, _, _)
emit_outputs_skipping_known(st, outputs, c, i) ==
    IF i > Len(outputs) THEN [st EXCEPT !.result = Ok]
    ELSE LET output == outputs[i]
             entry == derived_entry(output, c.recipe, c.output_trust)
             known == /\ output.asset_key \in DOMAIN st.registry
                      /\ st.registry[output.asset_key] = entry
             reg2 == map_insert(st.registry, output.asset_key, entry)
             lin2 == lineage_insert_edges(st.lineage, reg2, c.input_snapshots,
                                          entry.fingerprint_v0, c.node_id, c.op_kind)
             mat == materialization_record(output, entry.fingerprint_v0, c)
         IN IF c.fail = i
            THEN [result |-> IoFailure("materializations.ndjson"), registry |-> reg2,
                  lineage |-> lin2, inserted |-> i, appended |-> st.appended]
            ELSE emit_outputs_skipping_known(
                     [result |-> Ok, registry |-> reg2, lineage |-> lin2,
                      inserted |-> i,
                      appended |-> IF known THEN st.appended
                                   ELSE Append(st.appended, mat)],
                     outputs, c, i + 1)

\* The loop over the outputs from output i on.  st holds the registry, the
\* lineage, the number of entries inserted and the records appended so far;
\* the append of output c.fail fails and returns from the call.
RECURSIVE emit_outputs(_, _, _, _)
emit_outputs(st, outputs, c, i) ==
    IF i > Len(outputs) THEN [st EXCEPT !.result = Ok]
    ELSE LET output == outputs[i]
             entry == derived_entry(output, c.recipe, c.output_trust)
             reg2 == map_insert(st.registry, output.asset_key, entry)
             lin2 == lineage_insert_edges(st.lineage, reg2, c.input_snapshots,
                                          entry.fingerprint_v0, c.node_id, c.op_kind)
             mat == materialization_record(output, entry.fingerprint_v0, c)
         IN IF c.fail = i
            THEN [result |-> IoFailure("materializations.ndjson"), registry |-> reg2,
                  lineage |-> lin2, inserted |-> i, appended |-> st.appended]
            ELSE emit_outputs([result |-> Ok, registry |-> reg2, lineage |-> lin2,
                               inserted |-> i, appended |-> Append(st.appended, mat)],
                              outputs, c, i + 1)

\* 4-6. what the loop needs from the node and the input snapshots
emit_context(node, snap, ts_unix_nanos, cache_hit, duration_ms, fail) ==
    LET trust == output_trust(snap.any_untrusted_input, node.execution_trust)
    IN [recipe |-> recipe_hash_v0(node, snap.upstream_fps),
        output_trust |-> trust,
        unsafe_surface |-> (trust = "Untrusted"),
        node_id |-> IF node.node_id.some THEN node.node_id.value
                    ELSE node_id_from_key(node.node_key),
        node_hash |-> hex_lower(node_def_hash_v1(node)),
        op_kind |-> node.op_kind,
        input_snapshots |-> snap.input_snapshots,
        ts_unix_nanos |-> ts_unix_nanos,
        cache_hit |-> cache_hit,
        duration_ms |-> duration_ms,
        fail |-> fail]

\* A call that returns before it touched anything.
rejected(result, reg, lin, reg_json, lin_json) ==
    [result |-> result, registry |-> reg, lineage |-> lin,
     registry_json |-> reg_json, lineage_json |-> lin_json, inserted |-> 0,
     appended |-> << >>]

\* 4-9. derive, emit, flush
derive_and_emit(reg, lin, reg_json, lin_json, outputs, c) ==
    LET e == emit_outputs([result |-> Ok, registry |-> reg, lineage |-> lin,
                           inserted |-> 0, appended |-> << >>], outputs, c, 1)
        f == flush_snapshots(e.registry, e.lineage, reg_json, lin_json,
                             IF c.fail > Len(outputs) THEN c.fail - Len(outputs) ELSE 0)
    IN IF e.result.tag # "Ok"
       THEN [result |-> e.result, registry |-> e.registry, lineage |-> e.lineage,
             registry_json |-> reg_json, lineage_json |-> lin_json,
             inserted |-> e.inserted, appended |-> e.appended]
       ELSE [result |-> f.result, registry |-> e.registry, lineage |-> e.lineage,
             registry_json |-> f.registry_json, lineage_json |-> f.lineage_json,
             inserted |-> e.inserted, appended |-> e.appended]

\* The output contract checked inside the loop, output by output.
materialize_node_outputs_lazy(reg, lin, reg_json, lin_json, node, outputs, ts_unix_nanos, cache_hit, duration_ms, fail) ==
    LET snap == snapshot_inputs(reg, node)
        declared == {node.outputs[i].asset_key : i \in DOMAIN node.outputs}
        Und == {j \in DOMAIN outputs : outputs[j].asset_key \notin declared}
    IN IF duplicate_output(outputs).tag # "Ok"
       THEN rejected(duplicate_output(outputs), reg, lin, reg_json, lin_json)
       ELSE IF snap.result.tag # "Ok"
       THEN rejected(snap.result, reg, lin, reg_json, lin_json)
       ELSE IF Und # {}
       THEN LET e == emit_outputs([result |-> Ok, registry |-> reg, lineage |-> lin,
                                   inserted |-> 0, appended |-> << >>],
                                  SubSeq(outputs, 1, Min(Und) - 1),
                                  emit_context(node, snap, ts_unix_nanos, cache_hit,
                                               duration_ms, 0), 1)
            IN [result |-> undeclared_output(node, outputs), registry |-> e.registry,
                lineage |-> e.lineage, registry_json |-> reg_json,
                lineage_json |-> lin_json, inserted |-> e.inserted,
                appended |-> e.appended]
       ELSE derive_and_emit(reg, lin, reg_json, lin_json, outputs,
                            emit_context(node, snap, ts_unix_nanos, cache_hit,
                                         duration_ms, fail))

\* materialize_node_outputs(node, outputs, ts_unix_nanos, cache_hit, duration_ms)
materialize_node_outputs(reg, lin, reg_json, lin_json, node, outputs, ts_unix_nanos, cache_hit, duration_ms, fail) ==
    LET snap == snapshot_inputs(reg, node)
    IN IF validate_outputs(node, outputs).tag # "Ok"
       THEN rejected(validate_outputs(node, outputs), reg, lin, reg_json, lin_json)
       ELSE IF snap.result.tag # "Ok"
       THEN rejected(snap.result, reg, lin, reg_json, lin_json)
       ELSE derive_and_emit(reg, lin, reg_json, lin_json, outputs,
                            emit_context(node, snap, ts_unix_nanos, cache_hit,
                                         duration_ms, fail))

-----------------------------------------------------------------------------
(* Inputs of the session: the nodes and descriptors of the tests.           *)
\* The records appended to materializations.ndjson plus the sink operations
\* that failed.
MaxRecords == 2

AssetRef(asset_key) == [asset_key |-> asset_key, fingerprint |-> None]

AssetRefs(keys) == [i \in DOMAIN keys |-> AssetRef(keys[i])]

make_source_node(key) ==
    [node_key |-> key, node_id |-> None, op_kind |-> "Data", op_type |-> "ingest",
     inputs |-> << >>, outputs |-> << >>, params |-> << >>,
     code_ref |-> Some("test@0.1.0"), unsafe_surface |-> FALSE,
     execution_trust |-> "Core", node_def_hash |-> None]

make_transform_node(key, input_keys, output_keys, trust) ==
    [node_key |-> key, node_id |-> None, op_kind |-> "Data", op_type |-> "transform",
     inputs |-> AssetRefs(input_keys), outputs |-> AssetRefs(output_keys),
     params |-> << >>, code_ref |-> Some("test@0.1.0"), unsafe_surface |-> FALSE,
     execution_trust |-> trust, node_def_hash |-> None]

Raw == "dataset://ns/raw"

Clean == "dataset://ns/clean"

Right == "dataset://ns/right"

Nodes ==
    {make_transform_node("transform/clean", <<Raw>>, <<Clean>>, "Core"),
     make_transform_node("transform/clean", <<Raw>>, <<Clean>>, "UnsafeExtension"),
     make_transform_node("transform/inplace", <<Raw>>, <<Raw, Clean>>, "SandboxedExtension"),
     make_transform_node("transform/join", <<Clean, Raw>>, <<Right>>, "Core")}

OutputSpec(asset_key) == [asset_key |-> asset_key, schema |-> None, rows |-> None, bytes |-> None]

OutputSpecs(keys) == [i \in DOMAIN keys |-> OutputSpec(keys[i])]

\* No output, one output, two distinct outputs, the same output twice.
OutputLists ==
    {OutputSpecs(keys) : keys \in {<< >>, <<Clean>>, <<Raw>>, <<Right>>, <<Raw, Clean>>,
                                   <<Clean, Right>>, <<Clean, Clean>>, <<Right, Right>>}}

SourceDescriptor ==
    [uri |-> [scheme |-> "s3", userinfo |-> "user:secret", rest |-> "bucket/raw.parquet",
              padded |-> FALSE],
     content_type |-> Str("application/parquet"),
     auth_mode |-> "None",
     etag_or_version |-> None]

TrustClasses == {"Trusted", "Untrusted"}

TsInputs == {1000}

\* A finalize that writes the manifest first and the snapshots after it.
finalize_manifest_first(reg, lin, fs, run_id, fail) ==
    LET m == finalize_manifest(fs, run_id)
        f == flush_snapshots(reg, lin, m.files[REGISTRY_JSON], m.files[LINEAGE_JSON], fail)
    IN [result |-> IF m.result.tag # "Ok" THEN m.result ELSE f.result,
        files |-> [p \in DOMAIN m.files |->
                      IF p = REGISTRY_JSON THEN f.registry_json
                      ELSE IF p = LINEAGE_JSON THEN f.lineage_json
                      ELSE m.files[p]]]

\* DataOpsSession::finalize: flush_snapshots()?; sink.finalize_manifest()
finalize(reg, lin, fs, run_id, fail) ==
    LET f == flush_snapshots(reg, lin, fs[REGISTRY_JSON], fs[LINEAGE_JSON], fail)
        flushed == [p \in DOMAIN fs |->
                       IF p = REGISTRY_JSON THEN f.registry_json
                       ELSE IF p = LINEAGE_JSON THEN f.lineage_json
                       ELSE fs[p]]
    IN IF f.result.tag # "Ok" THEN [result |-> f.result, files |-> flushed]
       ELSE finalize_manifest(flushed, run_id)

\* normalize_node_v1: node_id from node_key, then node_def_hash
normalize_node_v1(node) ==
    LET with_id == [node EXCEPT !.node_id = Some(node_id_from_key(node.node_key))]
    IN [with_id EXCEPT !.node_def_hash = Some(hex_lower(node_def_hash_v1(with_id)))]

\* write_graph fills an absent or empty code_ref before normalizing
default_code_ref(node) ==
    IF (IF node.code_ref.some THEN node.code_ref.value ELSE "") = ""
    THEN [node EXCEPT !.code_ref = Some("swarm-torch@0.1.0")]
    ELSE node

\* RunArtifactBundle::write_graph
write_graph(fs, graph) ==
    write_json_pretty_atomic(fs, GRAPH_JSON,
        GraphV1(graph.graph_id,
                [i \in DOMAIN graph.nodes |->
                    normalize_node_v1(default_code_ref(graph.nodes[i]))]))

-----------------------------------------------------------------------------
(* report.rs: the artifact reader.                                          *)

\* RunArtifactBundle::open: the run id is the one run.json names.
RunArtifactBundle_open(fs) ==
    LET run_file == read_json(fs, RUN_JSON)
    IN IF run_file.result.tag # "Ok" THEN [result |-> run_file.result]
       ELSE [result |-> Ok, value |-> run_file.value.head.run_id]

\* report.rs read_json: fs::read, then serde_json::from_slice
read_json_slice(fs, path) ==
    IF path \notin DOMAIN fs THEN [result |-> io_error("NotFound", "read")]
    ELSE IF ~from_reader(fs[path]).some THEN [result |-> io_error("InvalidData", "parse")]
    ELSE [result |-> Ok, value |-> from_reader(fs[path]).value.items]

\* A line that serde_json::from_str parses as a record.
parses_as_record(line) == DOMAIN line \cap {"junk", "flipped"} = {}

\* report.rs read_ndjson: every line must parse
read_ndjson(fs, path) ==
    IF path \notin DOMAIN fs THEN [result |-> io_error("NotFound", "open")]
    ELSE IF \E i \in DOMAIN fs[path] : ~parses_as_record(fs[path][i])
    THEN [result |-> io_error("InvalidData", "invalid ndjson at line")]
    ELSE [result |-> Ok, value |-> fs[path]]

\* The files load_report reads after the manifest check, in the order it
\* reads them.
ReportReads ==
    <<GRAPH_JSON, REGISTRY_JSON, LINEAGE_JSON, SPANS_NDJSON, EVENTS_NDJSON,
      METRICS_NDJSON, MATERIALIZATIONS_NDJSON>>

report_read(fs, i) ==
    IF i <= 3 THEN read_json_slice(fs, ReportReads[i]) ELSE read_ndjson(fs, ReportReads[i])

\* The reads from the first one up to the failing one, or all of them, and
\* the Report when every read succeeded.
read_report_files(fs, steps) ==
    LET bad == {i \in DOMAIN ReportReads : report_read(fs, i).result.tag # "Ok"}
        names(n) == [i \in 1 .. n |-> ReportReads[i].name]
    IN IF bad # {}
       THEN [result |-> report_read(fs, Min(bad)).result,
             steps |-> steps \o names(Min(bad)), report |-> None]
       ELSE [result |-> Ok, steps |-> steps \o names(Len(ReportReads)),
             report |-> Some(
                 [graph |-> [i \in DOMAIN report_read(fs, 1).value |->
                                normalize_node_v1(report_read(fs, 1).value[i])],
                  registry |-> report_read(fs, 2).value,
                  lineage |-> report_read(fs, 3).value,
                  spans |-> report_read(fs, 4).value,
                  events |-> report_read(fs, 5).value,
                  metrics |-> report_read(fs, 6).value,
                  materializations |-> report_read(fs, 7).value])]

\* A reader that skips the manifest check.
load_report_unvalidated(fs) ==
    LET opened == RunArtifactBundle_open(fs)
    IN IF opened.result.tag # "Ok"
       THEN [result |-> opened.result, steps |-> <<"open">>, report |-> None]
       ELSE read_report_files(fs, <<"open">>)

\* load_report(run_dir): open, validate_manifest, then the reads.  steps
\* names what the call did, in order, up to the step that failed.
load_report(fs) ==
    LET opened == RunArtifactBundle_open(fs)
    IN IF opened.result.tag # "Ok"
       THEN [result |-> opened.result, steps |-> <<"open">>, report |-> None]
       ELSE IF validate_manifest(fs, opened.value).tag # "Ok"
       THEN [result |-> validate_manifest(fs, opened.value),
             steps |-> <<"open", "validate_manifest">>, report |-> None]
       ELSE read_report_files(fs, <<"open", "validate_manifest">>)

\* is_node_unsafe(node, registry): a node that does not run as Core is unsafe;
\* otherwise each input is looked up with iter().find(), which stops at the
\* first entry of registry.datasets with the input's asset_key.
first_entry(datasets, asset_key) ==
    LET hits == {j \in DOMAIN datasets : datasets[j].asset_key = asset_key}
    IN IF hits = {} THEN None ELSE Some(datasets[Min(hits)])

is_node_unsafe(node, datasets) ==
    \/ node.execution_trust # "Core"
    \/ \E i \in DOMAIN node.inputs :
          LET found == first_entry(datasets, node.inputs[i].asset_key)
          IN \/ ~found.some
             \/ found.value.trust = "Untrusted"

\* bundle.write_dataset_registry(registry): the public writer of
\* datasets/registry.json; the Vec is written as given.
write_dataset_registry(fs, reg) ==
    write_json_pretty_atomic(fs, REGISTRY_JSON,
        Doc([schema_version |-> reg.schema_version], reg.datasets))

\* ---- observe.rs: hex-encoded ids ----
\* A &str is a sequence of characters; as_bytes() gives its UTF-8 bytes, one
\* per ASCII character and two for e-acute, U+00E9 (C3 A9).
utf8(c) == IF c = "U+00E9" THEN <<"xC3", "xA9">> ELSE <<c>>

RECURSIVE as_bytes(_)
as_bytes(s) == IF s = << >> THEN << >> ELSE utf8(Head(s)) \o as_bytes(Tail(s))

DecDigits == <<"0", "1", "2", "3", "4", "5", "6", "7", "8", "9">>

LowerAF == <<"a", "b", "c", "d", "e", "f">>

UpperAF == <<"A", "B", "C", "D", "E", "F">>

HEX_LOWER == DecDigits \o LowerAF

position(seq, b) == Min({i \in DOMAIN seq : seq[i] = b})

in_range(seq, b) == \E i \in DOMAIN seq : seq[i] = b

\* decode_hex_nibble(b): '0'..='9', 'a'..='f' and 'A'..='F' all decode.
decode_hex_nibble(b) ==
    IF in_range(DecDigits, b) THEN Some(position(DecDigits, b) - 1)
    ELSE IF in_range(LowerAF, b) THEN Some(position(LowerAF, b) - 1 + 10)
    ELSE IF in_range(UpperAF, b) THEN Some(position(UpperAF, b) - 1 + 10)
    ELSE None

\* parse_hex_exact::<N>(s): the byte length first, then the nibbles pair by
\* pair; the first undecodable nibble ends the call.
parse_hex_exact(N, s) ==
    LET bytes == as_bytes(s)
        bad == {k \in 1 .. 2 * N : ~decode_hex_nibble(bytes[k]).some}
    IN IF Len(bytes) # N * 2 THEN [tag |-> "InvalidLength"]
       ELSE IF bad # {} THEN [tag |-> "InvalidHex"]
       ELSE [tag |-> "Ok",
             value |-> [i \in 1 .. N |->
                           decode_hex_nibble(bytes[2 * i - 1]).value * 16
                             + decode_hex_nibble(bytes[2 * i]).value]]

is_all_zero(bytes) == \A i \in DOMAIN bytes : bytes[i] = 0

\* TraceId / RunId / SpanId ::parse_hex, N bytes wide.
parse_hex(N, s) ==
    LET parsed == parse_hex_exact(N, s)
    IN IF parsed.tag # "Ok" THEN parsed
       ELSE IF is_all_zero(parsed.value) THEN [tag |-> "AllZeroInvalid"]
       ELSE parsed

\* The id types and their widths in bytes (NodeId is TraceId).
IdWidth == [TraceId |-> 16, SpanId |-> 8, RunId |-> 16, NodeId |-> 16]

\* ---- aggregation.rs: TrimmedMean ----
\* f32 scaled: the finite values are the integers of magnitude up to F32_MAX;
\* a sum beyond them is an infinity; NaN is a value of its own.
F32_MAX == 2

F32_INFINITY == F32_MAX + 1

F32_NEG_INFINITY == -F32_INFINITY

F32_NAN == F32_MAX + 2

is_nan(x) == x = F32_NAN

is_finite(x) == -F32_MAX <= x /\ x <= F32_MAX

\* f32 addition: NaN and inf - inf give NaN, an infinity absorbs, and a
\* finite sum out of range overflows to the infinity of its sign.
f32_add(a, b) ==
    IF is_nan(a) \/ is_nan(b) THEN F32_NAN
    ELSE IF ~is_finite(a) /\ ~is_finite(b) THEN (IF a = b THEN a ELSE F32_NAN)
    ELSE IF ~is_finite(a) THEN a
    ELSE IF ~is_finite(b) THEN b
    ELSE IF a + b > F32_MAX THEN F32_INFINITY
    ELSE IF a + b < -F32_MAX THEN F32_NEG_INFINITY
    ELSE a + b

\* a.partial_cmp(b).unwrap_or(Equal) == Less: NaN is Equal to everything.
is_less(a, b) == ~is_nan(a) /\ ~is_nan(b) /\ a < b

\* slice::sort_by on a short slice is an insertion sort: each element moves
\* left past the elements it is less than.
RECURSIVE insert_tail(_, _)
insert_tail(sorted, x) ==
    IF sorted # << >> /\ is_less(x, sorted[Len(sorted)])
    THEN Append(insert_tail(SubSeq(sorted, 1, Len(sorted) - 1), x), sorted[Len(sorted)])
    ELSE Append(sorted, x)

RECURSIVE sort_by(_)
sort_by(values) ==
    IF values = << >> THEN << >>
    ELSE insert_tail(sort_by(SubSeq(values, 1, Len(values) - 1)), values[Len(values)])

\* iter().sum(): a left fold from 0.0.
RECURSIVE f32_sum(_)
f32_sum(values) ==
    IF values = << >> THEN 0
    ELSE f32_add(f32_sum(SubSeq(values, 1, Len(values) - 1)), values[Len(values)])

\* TrimmedMean::new(trim_ratio): the ratio, in hundredths, clamped to 0 .. 0.49.
TrimmedMean_new(trim_ratio) ==
    [trim_ratio |-> IF trim_ratio < 0 THEN 0 ELSE IF trim_ratio > 49 THEN 49 ELSE trim_ratio]

\* ((n as f32) * self.trim_ratio) as usize
trim_count_of(n, trim_ratio) == (n * trim_ratio) \div 100

\* TrimmedMean::aggregate(updates).  A coordinate of the result is the
\* quotient sum / len, kept as the pair of its terms.
aggregate(self, updates) ==
    LET n == Len(updates)
        trim_count == trim_count_of(n, self.trim_ratio)
        dim == Len(updates[1].gradients)
        coordinate(i) ==
            LET values == sort_by([u \in 1 .. n |-> updates[u].gradients[i]])
                trimmed == SubSeq(values, trim_count + 1, n - trim_count)
            IN [sum |-> f32_sum(trimmed), len |-> Len(trimmed)]
    IN IF n = 0 THEN [tag |-> "InsufficientUpdates"]
       ELSE IF n <= 2 * trim_count THEN [tag |-> "InsufficientUpdates"]
       ELSE [tag |-> "Ok", value |-> [i \in 1 .. dim |-> coordinate(i)]]

\* ---- dataops.rs: cache-hit prediction ----
\* A prediction that takes the upstream fingerprints in reverse order.
predict_output_fingerprints_reversed(node, outputs, upstream_fps) ==
    LET reversed == [i \in DOMAIN upstream_fps |->
                        upstream_fps[Len(upstream_fps) + 1 - i]]
        recipe == recipe_hash_v0(node, reversed)
    IN [i \in DOMAIN outputs |->
           [asset_key |-> outputs[i].asset_key,
            fingerprint_v0 |->
                hex_lower(dataset_fingerprint_v0(
                    derived_source_fingerprint_v0(outputs[i].asset_key),
                    IF outputs[i].schema.some THEN schema_hash_v0(outputs[i].schema.value)
                    ELSE no_schema_hash_v0,
                    recipe))]]

\* predict_output_fingerprints(node, outputs, upstream_fps): one recipe for
\* the node, one fingerprint per output; no registry is involved.
predict_output_fingerprints(node, outputs, upstream_fps) ==
    LET recipe == recipe_hash_v0(node, upstream_fps)
    IN [i \in DOMAIN outputs |->
           LET source_fp == derived_source_fingerprint_v0(outputs[i].asset_key)
               schema_fp == IF outputs[i].schema.some
                            THEN schema_hash_v0(outputs[i].schema.value)
                            ELSE no_schema_hash_v0
           IN [asset_key |-> outputs[i].asset_key,
               fingerprint_v0 |->
                   hex_lower(dataset_fingerprint_v0(source_fp, schema_fp, recipe))]]

\* OutputSpecCore of an OutputSpec: the key and the optional schema.
OutputSpecCore(output) == [asset_key |-> output.asset_key, schema |-> output.schema]

\* The fingerprints of the node's inputs as the registry has them, in
\* node.inputs order.
registry_upstream_fps(reg, node) ==
    [i \in DOMAIN node.inputs |->
        hex_to_bytes(reg[node.inputs[i].asset_key].fingerprint_v0).value]

\* A graph of one node that names no code_ref.
Graphs ==
    {[graph_id |-> None,
      nodes |-> <<[make_transform_node("transform/clean", <<Raw>>, <<Clean>>, "Core")
                      EXCEPT !.code_ref = None]>>]}

-----------------------------------------------------------------------------
(* The files of the bundle the session writes to.                           *)

bundle_files == runs[bundle.value.run_dir]

registry_json == bundle_files[REGISTRY_JSON]

lineage_json == bundle_files[LINEAGE_JSON]

materializations_ndjson == bundle_files[MATERIALIZATIONS_NDJSON]

\* The run directory after the session wrote its three files.
with_session_files(fs, reg_json, lin_json, mat_ndjson) ==
    [p \in DOMAIN fs |->
        IF p = REGISTRY_JSON THEN reg_json
        ELSE IF p = LINEAGE_JSON THEN lin_json
        ELSE IF p = MATERIALIZATIONS_NDJSON THEN mat_ndjson
        ELSE fs[p]]

Producers == {"t1", "t2"}

(* The session after DataOpsSession::new on a bundle that was just created: *)
(* registry.json and lineage.json hold the defaults, the NDJSON is empty.   *)
InitSession ==
    /\ registry = << >>
    /\ lineage = << >>
    /\ bundle = Some(RunArtifactBundle(TestRunId))
    /\ runs = create(<< >>, TestRunId, 1000, FALSE).runs
    /\ io_faults = 0
    /\ last_mat = [op |-> "new"]

\* No atomic_write is in progress, no producer has started.
InitSink ==
    /\ writer = [pc |-> "idle"]
    /\ lock = "free"
    /\ producers = [t \in Producers |-> [pc |-> "idle"]]
    /\ acquired = << >>

\* session.register_source(Raw, trust, source, None, &ingest_node)
RegisterSourceWith(trusts) ==
    \E trust \in trusts :
      \E fail \in IF Len(materializations_ndjson) + io_faults < MaxRecords
                  THEN 0 .. 2 ELSE {0} :
        \E r \in {register_source(registry, lineage, registry_json, lineage_json, Raw,
                                 trust, SourceDescriptor, None,
                                 make_source_node("ingest/raw"), fail)} :
           /\ io_faults' = IF fail # 0 THEN io_faults + 1 ELSE io_faults
           /\ registry' = r.registry
           /\ lineage' = r.lineage
           /\ runs' = [runs EXCEPT ![bundle.value.run_dir] =
                           with_session_files(@, r.registry_json, r.lineage_json,
                                              materializations_ndjson)]
           /\ last_mat' = [op |-> "register_source", asset_key |-> Raw, trust |-> trust,
                           result |-> r.result]
           /\ UNCHANGED <<bundle, replay_vars, sink_vars>>

RegisterSource == RegisterSourceWith(TrustClasses)

\* session.materialize_node_outputs(&node, &outputs, ts, false, 50)
MaterializeWith(nodes, output_lists) ==
    \E node \in nodes, outputs \in output_lists, ts \in TsInputs :
      /\ Len(materializations_ndjson) + io_faults + Len(outputs) <= MaxRecords
      /\ \E fail \in IF Len(materializations_ndjson) + io_faults < MaxRecords
                     THEN 0 .. Len(outputs) + 2 ELSE {0} :
           \E r \in {materialize_node_outputs(registry, lineage, registry_json,
                                              lineage_json, node, outputs, ts, FALSE, 50,
                                              fail)} :
              /\ fail # 0 => r.result.tag = "Io"
              /\ io_faults' = IF fail # 0 THEN io_faults + 1 ELSE io_faults
              /\ registry' = r.registry
              /\ lineage' = r.lineage
              /\ runs' = [runs EXCEPT ![bundle.value.run_dir] =
                              with_session_files(@, r.registry_json, r.lineage_json,
                                                 materializations_ndjson \o r.appended)]
              /\ last_mat' = [op |-> "materialize_node_outputs", node |-> node,
                              outputs |-> outputs, result |-> r.result,
                              inserted |-> r.inserted, appended |-> Len(r.appended)]
              /\ UNCHANGED <<bundle, replay_vars, sink_vars>>

MaterializeNodeOutputs == MaterializeWith(Nodes, OutputLists)

-----------------------------------------------------------------------------
(* Operations on the bundle and what the environment does to its files.     *)

\* RunArtifactBundle::create(base, run_id)
Create ==
    \E run_id \in RunIds, fail \in BOOLEAN :
      \E r \in {create(runs, run_id, 1000, fail)} :
        /\ fail => r.result.tag = "Io"
        /\ runs' = r.runs
        /\ bundle' = IF r.result.tag = "Ok" THEN Some(RunArtifactBundle(run_id)) ELSE bundle
        /\ last_mat' = [op |-> "create", run_id |-> run_id, result |-> r.result]
        /\ UNCHANGED <<registry, lineage, io_faults, replay_vars, sink_vars>>

\* Files a run directory comes to hold besides the baseline ones: artifacts
\* stored below artifacts/, and a <name>.tmp left behind by a writer that died.
ExtraPaths == {MODEL_BIN, NESTED_MANIFEST, tmp_path(REGISTRY_JSON)}

PutArtifact ==
    \E path \in ExtraPaths :
        /\ bundle.some
        /\ path \notin DOMAIN bundle_files
        /\ runs' = [runs EXCEPT ![bundle.value.run_dir] =
                        map_insert(@, path, <<[blob |-> "artifact"]>>)]
        /\ last_mat' = [op |-> "put_artifact", path |-> path]
        /\ UNCHANGED <<registry, lineage, bundle, io_faults, replay_vars, sink_vars>>

\* The records of all NDJSON files of the bundle together.
lines_of(fs, path) == IF path \in DOMAIN fs THEN Len(fs[path]) ELSE 0

ndjson_records(fs) ==
    lines_of(fs, SPANS_NDJSON) + lines_of(fs, EVENTS_NDJSON) + lines_of(fs, METRICS_NDJSON)
        + lines_of(fs, MATERIALIZATIONS_NDJSON)

\* bundle.append_span / append_event / append_metric
AppendRecord(op, path, record) ==
    /\ bundle.some
    /\ path \in DOMAIN bundle_files
    /\ ndjson_records(bundle_files) + io_faults < MaxRecords
    /\ runs' = [runs EXCEPT ![bundle.value.run_dir] = append_ndjson(@, path, record)]
    /\ last_mat' = [op |-> op, result |-> Ok]
    /\ UNCHANGED <<registry, lineage, bundle, io_faults, replay_vars, sink_vars>>

AppendSpan == AppendRecord("append_span", SPANS_NDJSON, [span |-> "train"])

AppendEvent == AppendRecord("append_event", EVENTS_NDJSON, [event |-> "started"])

AppendMetric == AppendRecord("append_metric", METRICS_NDJSON, [metric |-> "loss"])

\* bundle.finalize_manifest()
FinalizeManifest ==
    /\ bundle.some
    /\ \E r \in {finalize_manifest(bundle_files, bundle.value.run_id)} :
         /\ runs' = [runs EXCEPT ![bundle.value.run_dir] = r.files]
         /\ last_mat' = [op |-> "finalize_manifest", result |-> r.result]
    /\ UNCHANGED <<registry, lineage, bundle, io_faults, replay_vars, sink_vars>>

\* bundle.validate_manifest()
ValidateManifest ==
    /\ bundle.some
    /\ last_mat' = [op |-> "validate_manifest",
                    result |-> validate_manifest(bundle_files, bundle.value.run_id),
                    finalized |-> \/ last_mat.op = "finalize" /\ last_mat.result.tag = "Ok"
                                  \/ last_mat.op = "validate_manifest" /\ last_mat.finalized]
    /\ UNCHANGED <<registry, lineage, bundle, runs, io_faults, replay_vars, sink_vars>>

\* load_report(run_dir).  The call records what the report is loaded after:
\* records appended with no finalize() since to a bundle nobody tampered with
\* (a record cut from materializations.ndjson and appended again by the
\* session leaves the finalized bytes), or a listed file tampered with.
LoadReport ==
    /\ bundle.some
    /\ \E r \in {load_report(bundle_files)} :
         last_mat' =
            [op |-> "load_report", result |-> r.result, steps |-> r.steps,
             report |-> r.report,
             unfinalized |->
                \/ /\ last_mat.op = "materialize_node_outputs"
                   /\ last_mat.appended > 0
                   /\ io_faults = 0
                \/ last_mat.op = "load_report" /\ last_mat.unfinalized,
             tampered |->
                \/ last_mat.op = "tamper"
                \/ last_mat.op = "load_report" /\ last_mat.tampered]
    /\ UNCHANGED <<registry, lineage, bundle, runs, io_faults, replay_vars, sink_vars>>

\* Registry entries and nodes of the report scenarios.
registry_entry(asset_key, trust) ==
    source_entry(asset_key, trust, SourceDescriptor, None, make_source_node("ingest/raw"))

ReportEntries ==
    {registry_entry(Raw, "Trusted"), registry_entry(Raw, "Untrusted"),
     registry_entry(Clean, "Trusted")}

MaxDatasets == 2

ReportRegistries ==
    {[schema_version |-> DATAOPS_SCHEMA_V1, datasets |-> ds] :
        ds \in UNION {[1 .. n -> ReportEntries] : n \in 0 .. MaxDatasets}}

ReportNodes ==
    {[make_transform_node("transform/clean", ins, << >>, trust) EXCEPT !.unsafe_surface = bit] :
        ins \in {<< >>, <<Raw>>, <<Raw, Clean>>},
        trust \in {"Core", "SandboxedExtension", "UnsafeExtension"},
        bit \in BOOLEAN}

\* A bundle written through the public writers (registry, graph, manifest),
\* loaded as a report, and its node marked as render_html marks it.
ReportNodeUnsafe ==
    /\ bundle.some
    /\ \E reg \in ReportRegistries, node \in ReportNodes :
         \E fin \in {finalize_manifest(
                        write_graph(write_dataset_registry(bundle_files, reg),
                                    [graph_id |-> None, nodes |-> <<node>>]),
                        bundle.value.run_id)} :
           \E r \in {load_report(fin.files)} :
             /\ fin.result = Ok
             /\ r.result = Ok
             /\ runs' = [runs EXCEPT ![bundle.value.run_dir] = fin.files]
             /\ last_mat' = [op |-> "is_node_unsafe", result |-> Ok,
                             node |-> r.report.value.graph[1],
                             datasets |-> r.report.value.registry,
                             unsafe |-> is_node_unsafe(r.report.value.graph[1],
                                                       r.report.value.registry)]
    /\ UNCHANGED <<registry, lineage, bundle, io_faults, replay_vars, sink_vars>>

\* Strings handed to the id parsers: one character repeated, with the first
\* or the last character replaced.
IdChars == {"0", "1", "9", "a", "f", "A", "F", "g", "G", "/", ":", "@", "U+00E9"}

IdLens == {4, 15, 16, 17, 31, 32, 33}

IdStrings ==
    {<< >>} \cup
    UNION {{[[i \in 1 .. n |-> c] EXCEPT ![p] = d] :
               c \in {"0", "a"}, p \in {1, n}, d \in IdChars} : n \in IdLens}

ParseHex ==
    /\ last_mat.op = "str"
    /\ last_mat' = [op |-> "parse_hex", id |-> last_mat.id, s |-> last_mat.s,
                    result |-> parse_hex(IdWidth[last_mat.id], last_mat.s)]
    /\ UNCHANGED <<registry, lineage, bundle, runs, io_faults, replay_vars, sink_vars>>

\* Rounds of updates of one coordinate; the updates in byzantine are sent by
\* peers that may send any f32, the others send finite values.
MaxUpdates == 4

TrimRatios == {-10, 0, 34, 49, 60}

F32Values == {F32_NEG_INFINITY, -F32_MAX, 0, 1, F32_MAX, F32_INFINITY, F32_NAN}

gradient_update(v) == [gradients |-> <<v>>]

Rounds ==
    UNION {[updates : [1 .. n -> {gradient_update(v) : v \in F32Values}],
            byzantine : SUBSET (1 .. n),
            trim_ratio : TrimRatios] : n \in 0 .. MaxUpdates}

HonestRounds ==
    {r \in Rounds :
        \A u \in DOMAIN r.updates :
            u \notin r.byzantine => is_finite(r.updates[u].gradients[1])}

Aggregate ==
    /\ last_mat.op = "round"
    /\ last_mat' = [op |-> "aggregate", updates |-> last_mat.updates,
                    byzantine |-> last_mat.byzantine,
                    aggregator |-> TrimmedMean_new(last_mat.trim_ratio),
                    result |-> aggregate(TrimmedMean_new(last_mat.trim_ratio), last_mat.updates)]
    /\ UNCHANGED <<registry, lineage, bundle, runs, io_faults, replay_vars, sink_vars>>

\* DataOpsSession::new(sink) on the sink in use or on a re-opened bundle:
\* the new session starts with empty maps, the files are not read.
NewSession ==
    /\ bundle.some
    /\ registry' = << >>
    /\ lineage' = << >>
    /\ last_mat' = [op |-> "DataOpsSession::new"]
    /\ UNCHANGED <<bundle, runs, io_faults, replay_vars, sink_vars>>

\* Outputs with and without a schema, for prediction and materialization.
ParquetSchema == [format |-> Str("parquet"), canonical |-> Str("id:int64")]

PredictOutputLists ==
    {OutputSpecs(<<Clean>>), OutputSpecs(<<Raw, Clean>>), OutputSpecs(<<Right>>),
     <<[OutputSpec(Clean) EXCEPT !.schema = Some(ParquetSchema)]>>}

MaterializePredicted == MaterializeWith(Nodes, PredictOutputLists)

\* A caller that gathers the registered inputs' fingerprints and predicts.
Predict ==
    \E node \in Nodes, outputs \in PredictOutputLists :
        /\ \A i \in DOMAIN node.inputs :
              /\ node.inputs[i].asset_key \in DOMAIN registry
              /\ hex_to_bytes(registry[node.inputs[i].asset_key].fingerprint_v0).some
        /\ last_mat' = [op |-> "predict_output_fingerprints", node |-> node,
                        outputs |-> outputs,
                        predicted |-> predict_output_fingerprints(node,
                            [i \in DOMAIN outputs |-> OutputSpecCore(outputs[i])],
                            registry_upstream_fps(registry, node))]
        /\ UNCHANGED <<registry, lineage, bundle, runs, io_faults, replay_vars, sink_vars>>

\* The calls of a session that cleans one source.
SessionNodes == {make_transform_node("transform/clean", <<Raw>>, <<Clean>>, "Core")}

SessionOutputLists == {OutputSpecs(<<Clean>>)}

RegisterSourceUntrusted == RegisterSourceWith({"Untrusted"})

MaterializeClean == MaterializeWith(SessionNodes, SessionOutputLists)

\* bundle.write_graph(&graph)
WriteGraph ==
    \E graph \in Graphs :
        /\ bundle.some
        /\ runs' = [runs EXCEPT ![bundle.value.run_dir] = write_graph(@, graph)]
        /\ last_mat' = [op |-> "write_graph", result |-> Ok]
        /\ UNCHANGED <<registry, lineage, bundle, io_faults, replay_vars, sink_vars>>

\* session.finalize()
Finalize ==
    \E fail \in IF ndjson_records(bundle_files) + io_faults < MaxRecords
                 THEN 0 .. 2 ELSE {0} :
      \E r \in {finalize(registry, lineage, bundle_files, bundle.value.run_id, fail)} :
        /\ io_faults' = IF fail # 0 THEN io_faults + 1 ELSE io_faults
        /\ runs' = [runs EXCEPT ![bundle.value.run_dir] = r.files]
        /\ last_mat' = [op |-> "finalize", result |-> r.result,
                        after_crash |-> last_mat.op = "crash"]
        /\ UNCHANGED <<registry, lineage, bundle, replay_vars, sink_vars>>

\* The process dies inside materialize_node_outputs after the append of the
\* k-th record and before flush_snapshots; it is started again, opens the
\* bundle and makes a new session on it.
CrashAfterAppend ==
    \E node \in SessionNodes, outputs \in SessionOutputLists, ts \in TsInputs :
      /\ ndjson_records(bundle_files) + io_faults + Len(outputs) < MaxRecords + 1
      /\ \E k \in 1 .. Len(outputs) :
           \E r \in {materialize_node_outputs(registry, lineage, registry_json,
                                              lineage_json, node, outputs, ts, FALSE, 50,
                                              k + 1)} :
              /\ r.result.tag = "Io"
              /\ Len(r.appended) = k
              /\ runs' = [runs EXCEPT ![bundle.value.run_dir] =
                              with_session_files(@, registry_json, lineage_json,
                                                 materializations_ndjson \o r.appended)]
              /\ registry' = << >>
              /\ lineage' = << >>
              /\ last_mat' = [op |-> "crash", node |-> node, appended |-> k]
      /\ UNCHANGED <<bundle, io_faults, replay_vars, sink_vars>>

\* The atomic writes of a program that registers a source, materializes one
\* output, rewrites the graph and finalizes: the destination and the bytes of
\* write_json_pretty_atomic.  run.json is written by create alone; it stands
\* here with a later creation time.
JsonWrites(fs, run_id) ==
    LET reg == register_source(<< >>, << >>, fs[REGISTRY_JSON], fs[LINEAGE_JSON], Raw,
                               "Untrusted", SourceDescriptor, None,
                               make_source_node("ingest/raw"), 0)
        mat == materialize_node_outputs(reg.registry, reg.lineage, reg.registry_json,
                                        reg.lineage_json,
                                        make_transform_node("transform/clean", <<Raw>>,
                                                            <<Clean>>, "Core"),
                                        OutputSpecs(<<Clean>>), 1000, FALSE, 50, 0)
        run == RunFileV1(run_id, 2000)
        graph == CHOOSE g \in Graphs : TRUE
    IN {[path |-> RUN_JSON, bytes |-> to_vec_pretty(run.head, run.items)],
        [path |-> GRAPH_JSON, bytes |-> write_graph(fs, graph)[GRAPH_JSON]],
        [path |-> REGISTRY_JSON, bytes |-> mat.registry_json],
        [path |-> LINEAGE_JSON, bytes |-> mat.lineage_json],
        [path |-> MANIFEST_JSON, bytes |-> finalize_manifest(fs, run_id).files[MANIFEST_JSON]]}

\* atomic_write(path, bytes) step by step.  File::create(&tmp_path)
WriteCreate ==
    \E w \in JsonWrites(bundle_files, bundle.value.run_id) :
        /\ writer.pc # "writing"
        /\ bundle_files[w.path] # w.bytes
        /\ writer' = [pc |-> "writing", path |-> w.path, bytes |-> w.bytes,
                      prev |-> bundle_files[w.path], n |-> 0]
        /\ runs' = [runs EXCEPT ![bundle.value.run_dir] = atomic_write_create(@, w.path)]
        /\ last_mat' = [op |-> "atomic_write"]
        /\ UNCHANGED <<registry, lineage, bundle, io_faults, replay_vars, lock, producers,
                       acquired>>

\* f.write_all(bytes): one more part reaches the file
WriteAll ==
    /\ writer.pc = "writing"
    /\ writer.n < Len(writer.bytes)
    /\ writer' = [writer EXCEPT !.n = @ + 1]
    /\ runs' = [runs EXCEPT ![bundle.value.run_dir] =
                    atomic_write_write(@, writer.path, writer.bytes, writer.n + 1)]
    /\ UNCHANGED <<registry, lineage, bundle, io_faults, last_mat, replay_vars, lock,
                   producers, acquired>>

\* fs::rename(&tmp_path, path)
WriteRename ==
    /\ writer.pc = "writing"
    /\ writer.n = Len(writer.bytes)
    /\ writer' = [writer EXCEPT !.pc = "done"]
    /\ runs' = [runs EXCEPT ![bundle.value.run_dir] = atomic_write_rename(@, writer.path)]
    /\ UNCHANGED <<registry, lineage, bundle, io_faults, last_mat, replay_vars, lock,
                   producers, acquired>>

\* The process dies at some step of the write, once.
CrashWriter ==
    /\ writer.pc = "writing"
    /\ io_faults = 0
    /\ io_faults' = 1
    /\ writer' = [writer EXCEPT !.pc = "crashed"]
    /\ UNCHANGED <<registry, lineage, bundle, runs, last_mat, replay_vars, lock, producers,
                   acquired>>

\* bundle.finalize_manifest() by a process that is not in the middle of a write
FinalizeManifestLater ==
    /\ writer.pc \in {"done", "crashed"}
    /\ \E r \in {finalize_manifest(bundle_files, bundle.value.run_id)} :
         /\ runs' = [runs EXCEPT ![bundle.value.run_dir] = r.files]
         /\ last_mat' = [op |-> "finalize_manifest", result |-> r.result]
    /\ writer' = [pc |-> "idle"]
    /\ UNCHANGED <<registry, lineage, bundle, io_faults, replay_vars, lock, producers,
                   acquired>>

\* A sink whose guard never waits.
guard_without_mutex(lk, t) == TRUE

\* RunArtifactSink::guard: self.lock.lock() returns once no other thread
\* holds the mutex.
guard(lk, t) == lk = "free"

\* The sink calls a producer makes: the appends with their file, and
\* finalize_manifest.
SinkOps ==
    {[op |-> "append_span", path |-> SPANS_NDJSON],
     [op |-> "append_event", path |-> EVENTS_NDJSON],
     [op |-> "finalize_manifest", path |-> MANIFEST_JSON]}

\* The appends that have taken the lock so far, by one producer or by all.
appends_of(acq, t) == Len(SelectSeq(acq, LAMBDA a : a.record.producer = t))

\* let _g = self.guard()?;  The producer's n-th record is the one it appends.
SinkLockOf(ops, t) ==
    \E call \in ops :
        /\ producers[t].pc = "idle"
        /\ guard(lock, t)
        /\ lock' = t
        /\ IF call.op \in {"finalize_manifest", "validate_manifest"}
           THEN /\ producers' = [producers EXCEPT ![t] = [pc |-> "holding", call |-> call]]
                /\ UNCHANGED acquired
           ELSE /\ Len(acquired) < MaxRecords
                /\ \E record \in {[producer |-> t, n |-> appends_of(acquired, t) + 1]} :
                     /\ producers' = [producers EXCEPT ![t] =
                                          [pc |-> "holding", call |-> call,
                                           record |-> record]]
                     /\ acquired' = Append(acquired, [path |-> call.path, record |-> record])
        /\ UNCHANGED <<registry, lineage, bundle, runs, io_faults, last_mat, replay_vars,
                       writer>>

\* append_ndjson under the lock: write_all puts the line on disk in two
\* writes, the record and then the rest of it up to the newline.
SinkLock(t) == SinkLockOf(SinkOps, t)

SinkWrite(t) ==
    /\ producers[t].pc \in {"holding", "writing"}
    /\ producers[t].call.op \notin {"finalize_manifest", "validate_manifest"}
    /\ runs' = [runs EXCEPT ![bundle.value.run_dir] =
                    map_insert(@, producers[t].call.path,
                               Append(@[producers[t].call.path],
                                      [record |-> producers[t].record,
                                       chunk |-> IF producers[t].pc = "holding"
                                                 THEN "head" ELSE "newline"]))]
    /\ producers' = [producers EXCEPT ![t].pc =
                         IF @ = "holding" THEN "writing" ELSE "returning"]
    /\ UNCHANGED <<registry, lineage, bundle, io_faults, last_mat, replay_vars, writer,
                   lock, acquired>>

\* self.bundle.finalize_manifest() under the lock
SinkFinalizeManifest(t) ==
    /\ producers[t].pc = "holding"
    /\ producers[t].call.op = "finalize_manifest"
    /\ runs' = [runs EXCEPT ![bundle.value.run_dir] =
                    finalize_manifest(@, bundle.value.run_id).files]
    /\ producers' = [producers EXCEPT ![t].pc = "returning"]
    /\ UNCHANGED <<registry, lineage, bundle, io_faults, last_mat, replay_vars, writer,
                   lock, acquired>>

\* The guard is dropped when the call returns.
SinkUnlock(t) ==
    /\ producers[t].pc = "returning"
    /\ lock' = "free"
    /\ producers' = [producers EXCEPT ![t] = [pc |-> "idle"]]
    /\ UNCHANGED <<registry, lineage, bundle, runs, io_faults, last_mat, replay_vars,
                   writer, acquired>>

\* One byte of a file changed in place, one byte more, one byte less.
flip(bytes, i) == [bytes EXCEPT ![i] = [flipped |-> @]]

grow(bytes) == bytes \o <<[junk |-> TRUE]>>

shrink(bytes) == SubSeq(bytes, 1, Len(bytes) - 1)

\* The paths the manifest on disk lists.
manifest_paths(fs) ==
    LET m == read_json(fs, MANIFEST_JSON)
    IN IF m.result.tag # "Ok" THEN {}
       ELSE {run_dir_join(m.value.items[i].path) : i \in DOMAIN m.value.items}

\* Somebody changes or deletes one file the manifest lists, once per bundle,
\* while the manifest validates.
TamperKeeping(kept) ==
    /\ bundle.some
    /\ io_faults = 0
    /\ validate_manifest(bundle_files, bundle.value.run_id).tag = "Ok"
    /\ \E path \in manifest_paths(bundle_files) :
         \E fs \in {remove_file(bundle_files, path) : i \in {1} \ {1 : q \in {path} \cap kept}}
                   \cup {map_insert(bundle_files, path, grow(bundle_files[path]))}
                   \cup {map_insert(bundle_files, path, shrink(bundle_files[path])) :
                            i \in {1} \cap DOMAIN bundle_files[path]}
                   \cup {map_insert(bundle_files, path, flip(bundle_files[path], i)) :
                            i \in DOMAIN bundle_files[path]} :
            /\ runs' = [runs EXCEPT ![bundle.value.run_dir] = fs]
            /\ last_mat' = [op |-> "tamper", path |-> path,
                            deleted |-> path \notin DOMAIN fs,
                            resized |-> path \in DOMAIN fs
                                        /\ Len(fs[path]) # Len(bundle_files[path])]
    /\ io_faults' = 1
    /\ UNCHANGED <<registry, lineage, bundle, replay_vars, sink_vars>>

Tamper == TamperKeeping({})

\* The same while a session is writing: the files the session rewrites on
\* every call are changed but not deleted.
TamperDuringSession ==
    TamperKeeping({REGISTRY_JSON, LINEAGE_JSON, MATERIALIZATIONS_NDJSON})

-----------------------------------------------------------------------------
(* The guard after construction: try_with_config(capacity, skew) with a     *)
(* non-zero capacity; no peer is tracked.                                   *)
InitGuard ==
    /\ capacity \in 1 .. MaxCapacity
    /\ max_clock_skew_secs = DEFAULT_MAX_CLOCK_SKEW_SECS
    /\ peer_state = << >>
    /\ lru_order = << >>
    /\ accepted = << >>
    /\ last_call = [op |-> "new"]

\* The history of accepted sequences follows the cache: an entry that is
\* created starts a new history, an evicted entry loses it.
accepted_after(acc, ps2, peer, seq, was_tracked, result) ==
    [q \in DOMAIN ps2 |->
        IF q # peer THEN acc[q]
        ELSE IF ~was_tracked THEN {seq}
        ELSE IF result.tag = "Ok" THEN acc[q] \cup {seq}
        ELSE acc[q]]

\* guard.validate_sequence(&peer, seq): the guard and the record of the call.
ValidateSequenceCall(peer, seq) ==
    LET r == validate_sequence(peer_state, lru_order, capacity, peer, seq)
    IN /\ peer_state' = r.peer_state
       /\ lru_order' = r.lru_order
       /\ last_call' = [op |-> "validate_sequence", peer |-> peer, seq |-> seq,
                        tracked |-> peer \in DOMAIN peer_state,
                        before |-> IF peer \in DOMAIN peer_state
                                   THEN peer_state[peer]
                                   ELSE PeerReplayState_new(seq),
                        replayed |-> /\ peer \in DOMAIN accepted
                                     /\ seq \in accepted[peer],
                        result |-> r.result]
       /\ UNCHANGED <<capacity, max_clock_skew_secs>>
       /\ UNCHANGED <<dataops_vars, sink_vars>>

ValidateSequence ==
    \E peer \in Peers, seq \in SeqInputs :
        /\ ValidateSequenceCall(peer, seq)
        /\ UNCHANGED accepted

\* The same call with the history of accepted sequences kept.  One peer
\* presents every sequence; the other presents a single one, which is enough
\* to evict the first when the capacity is 1.
HistoryInputs == ({"pA"} \X SeqInputs) \cup ({"pB"} \X {20})

ValidateSequenceRecorded ==
    \E in \in HistoryInputs :
        LET peer == in[1]
            seq == in[2]
            r == validate_sequence(peer_state, lru_order, capacity, peer, seq)
        IN /\ ValidateSequenceCall(peer, seq)
           /\ accepted' = accepted_after(accepted, r.peer_state, peer, seq,
                                         peer \in DOMAIN peer_state, r.result)

\* envelope.verify_authenticated(&mut replay_guard, current_time)
VerifyAuthenticatedOf(envelopes) ==
    \E env \in envelopes, now \in EnvNow :
        LET r == verify_authenticated(env, peer_state, lru_order, capacity,
                                      max_clock_skew_secs, now)
            peer == env.sender
        IN /\ peer_state' = r.peer_state
           /\ lru_order' = r.lru_order
           /\ last_call' = [op |-> "verify_authenticated", env |-> env, now |-> now,
                            tracked |-> peer \in DOMAIN peer_state,
                            before |-> IF peer \in DOMAIN peer_state
                                       THEN peer_state[peer]
                                       ELSE PeerReplayState_new(env.sequence),
                            result |-> r.result]
           /\ UNCHANGED <<capacity, max_clock_skew_secs, accepted>>
           /\ UNCHANGED <<dataops_vars, sink_vars>>

VerifyAuthenticated == VerifyAuthenticatedOf(Envelopes)

\* Cache pressure: three peers, more than a guard of capacity 1 or 2 holds
\* (the unit test lru_eviction_respects_capacity presents an 11th peer to a
\* guard of capacity 10).
LruPeers == {"pA", "pB", "pC"}

LruSeqs == {1, 5}

\* Every sequence a peer ever had accepted, kept across evictions.
ever_accepted(acc, peer, seq, result) ==
    IF result.tag # "Ok" THEN acc
    ELSE [q \in DOMAIN acc \cup {peer} |->
            IF q = peer
            THEN (IF peer \in DOMAIN acc THEN acc[peer] ELSE {}) \cup {seq}
            ELSE acc[q]]

ValidateSequenceUnderPressure ==
    \E peer \in LruPeers, seq \in LruSeqs :
        /\ ValidateSequenceCall(peer, seq)
        /\ accepted' = ever_accepted(accepted, peer, seq,
                validate_sequence(peer_state, lru_order, capacity, peer, seq).result)

\* Guards configured with the default skew, with none, and with the largest.
SkewConfigs == {0, DEFAULT_MAX_CLOCK_SKEW_SECS, U32_MAX}

\* Timestamps and clock readings: the window edges of the unit tests around
\* now = 1000, and both ends of the u32 range.
TimestampInputs ==
    {0, 1, 60, 61, 939, 940, 1000, 1060, 1061, U32_MAX - 61, U32_MAX - 60, U32_MAX}

InitTimestamp ==
    /\ capacity = 1
    /\ max_clock_skew_secs \in SkewConfigs
    /\ peer_state = << >>
    /\ lru_order = << >>
    /\ accepted = << >>
    /\ last_call = [op |-> "new"]
    /\ InitSession
    /\ InitSink

\* guard.check_timestamp_only(ts, now): takes &self, returns the verdict.
CheckTimestampOnly ==
    \E ts \in TimestampInputs, now \in TimestampInputs :
        /\ last_call' = [op |-> "check_timestamp_only", ts |-> ts, now |-> now,
                         result |-> check_timestamp_only(max_clock_skew_secs, ts, now)]
        /\ UNCHANGED <<capacity, max_clock_skew_secs, peer_state, lru_order, accepted>>
        /\ UNCHANGED <<dataops_vars, sink_vars>>

\* Sequence calls between the timestamp checks, so that the guard holds state.
ValidateSequenceBetween ==
    \E peer \in Peers, seq \in {5, 20} :
        /\ ValidateSequenceCall(peer, seq)
        /\ UNCHANGED accepted

\* Sequence numbers at both ends of the u64 range: the unit test
\* sequence_window_check_no_overflow_at_u64_max (MAX - 5, MAX - 3, MAX, then
\* MAX - 5 - 20), the window edges MAX - 16 and MAX - 17, and the low end.
EdgeSeqs ==
    {0, 1, 5, 16, 17,
     U64_MAX - 25, U64_MAX - 17, U64_MAX - 16, U64_MAX - 5, U64_MAX - 3, U64_MAX}

ValidateSequenceAtEdges ==
    \E peer \in Peers, seq \in EdgeSeqs :
        /\ ValidateSequenceCall(peer, seq)
        /\ UNCHANGED accepted

\* The components a signature covers.
\* The highest sequence number of the long run.
MaxWindowSeq == 18

\* A sender whose stream is longer than the window: sequence numbers from 0 on.
WindowSeqs == 0 .. MaxWindowSeq

\* The first sequence number the guard sees of a sender.
StartSeqs == {0, 1, 3}

\* One peer sends in order, every message may arrive late or again, and the
\* first message that arrives is not always the first sent; the other peer
\* sends a single message, which evicts the first when the capacity is 1.
WindowInputs == ({"pA"} \X WindowSeqs) \cup ({"pB"} \X {3})

ValidateSequenceLongRun ==
    \E in \in WindowInputs :
        LET peer == in[1]
            seq == in[2]
        IN /\ IF peer \in DOMAIN peer_state
              THEN seq <= peer_state[peer].last_sequence + 1
              ELSE seq \in StartSeqs
           /\ ValidateSequenceCall(peer, seq)
           /\ UNCHANGED accepted

Signed(version, message_type, sequence, timestamp, payload) ==
    [version |-> version, message_type |-> message_type, sequence |-> sequence,
     timestamp |-> timestamp, payload |-> payload]

SignedTuples ==
    {Signed(v, m, s, 940, "test") :
        v \in EnvVersions, m \in {Heartbeat, GradientUpdate}, s \in EnvSeqs}

\* The tuple as signed, and the tuple with one component changed.
OneChange(m) ==
    {m} \cup {[m EXCEPT !.version = v] : v \in EnvVersions}
        \cup {[m EXCEPT !.message_type = t] : t \in {Heartbeat, GradientUpdate}}
        \cup {[m EXCEPT !.sequence = s] : s \in EnvSeqs}
        \cup {[m EXCEPT !.timestamp = t] : t \in EnvTimestamps}
        \cup {[m EXCEPT !.payload = p] : p \in {"test", "tampered"}}

\* MessageAuth::new(k).sign(signed), then MessageAuth::verify(public_key,
\* presented, signature).
SignThenVerify ==
    \E k \in KeyPairs, signed \in SignedTuples, public_key \in EnvSenders :
        \E presented \in OneChange(signed) :
            /\ last_call' =
                  [op |-> "sign_verify", k |-> k, signed |-> signed,
                   public_key |-> public_key, presented |-> presented,
                   result |->
                      MessageAuth_verify(public_key, presented.version,
                          presented.message_type, presented.sequence,
                          presented.timestamp, presented.payload,
                          MessageAuth_sign(k, signed.version, signed.message_type,
                              signed.sequence, signed.timestamp, signed.payload))]
            /\ UNCHANGED <<capacity, max_clock_skew_secs, peer_state, lru_order, accepted>>
            /\ UNCHANGED <<dataops_vars, sink_vars>>

\* Envelopes signed by kA that name kA's raw public key as sender, and the
\* same envelopes naming PeerId::from_public_key(kA.public) instead.
SenderEnvelopes ==
    LET signed == {signed_envelope("kA", CURRENT_VERSION, s, 940) : s \in EnvSeqs}
    IN signed \cup {[e EXCEPT !.sender = HashedPeerIdA] : e \in signed}

VerifyAuthenticatedSender == VerifyAuthenticatedOf(SenderEnvelopes)

Init == InitGuard /\ InitSession /\ InitSink

Next == ValidateSequence

Spec == Init /\ [][Next]_vars

NextHistory == ValidateSequenceRecorded

SpecHistory == Init /\ [][NextHistory]_vars

NextEnvelope == VerifyAuthenticated

SpecEnvelope == Init /\ [][NextEnvelope]_vars

NextLru == ValidateSequenceUnderPressure

SpecLru == Init /\ [][NextLru]_vars

NextTimestamp == CheckTimestampOnly \/ ValidateSequenceBetween

SpecTimestamp == InitTimestamp /\ [][NextTimestamp]_vars

NextEdges == ValidateSequenceAtEdges

SpecEdges == Init /\ [][NextEdges]_vars

NextWindow == ValidateSequenceLongRun

SpecWindow == Init /\ [][NextWindow]_vars

InitDataOps ==
    /\ InitGuard
    /\ capacity = 1
    /\ InitSession
    /\ InitSink

NextDataOps == RegisterSource \/ MaterializeNodeOutputs

SpecDataOps == InitDataOps /\ [][NextDataOps]_vars

NextAuth == SignThenVerify \/ VerifyAuthenticatedSender

SpecAuth == InitDataOps /\ [][NextAuth]_vars

NextReport ==
    \/ RegisterSource
    \/ MaterializeClean
    \/ WriteGraph
    \/ Finalize
    \/ TamperDuringSession
    \/ LoadReport

SpecReport == InitDataOps /\ [][NextReport]_vars

NextUnsafe == ReportNodeUnsafe

SpecUnsafe == InitDataOps /\ [][NextUnsafe]_vars

InitParse ==
    /\ InitGuard
    /\ capacity = 1
    /\ registry = << >>
    /\ lineage = << >>
    /\ bundle = None
    /\ runs = << >>
    /\ io_faults = 0
    /\ last_mat \in [op : {"str"}, id : DOMAIN IdWidth, s : IdStrings]
    /\ InitSink

NextParse == ParseHex

SpecParse == InitParse /\ [][NextParse]_vars

InitAggregate ==
    /\ InitGuard
    /\ capacity = 1
    /\ registry = << >>
    /\ lineage = << >>
    /\ bundle = None
    /\ runs = << >>
    /\ io_faults = 0
    /\ \E r \in HonestRounds :
         last_mat = [op |-> "round", updates |-> r.updates, byzantine |-> r.byzantine,
                     trim_ratio |-> r.trim_ratio]
    /\ InitSink

NextAggregate == Aggregate

SpecAggregate == InitAggregate /\ [][NextAggregate]_vars

NextSessions ==
    \/ RegisterSource
    \/ MaterializeClean
    \/ Finalize
    \/ NewSession

SpecSessions == InitDataOps /\ [][NextSessions]_vars

NextPredict == RegisterSourceUntrusted \/ MaterializePredicted \/ Predict

SpecPredict == InitDataOps /\ [][NextPredict]_vars

\* A base directory before any bundle was created in it; the directory of
\* the zero run id may be there already.
InitBase ==
    /\ InitGuard
    /\ capacity = 1
    /\ InitSink
    /\ registry = << >>
    /\ lineage = << >>
    /\ bundle = None
    /\ runs \in {<< >>, [id \in {ZeroRunId} |-> << >>]}
    /\ io_faults = 0
    /\ last_mat = [op |-> "base"]

NextBundle ==
    \/ Create
    \/ PutArtifact
    \/ AppendSpan
    \/ FinalizeManifest
    \/ ValidateManifest
    \/ Tamper

SpecBundle == InitBase /\ [][NextBundle]_vars

NextSession ==
    \/ RegisterSourceUntrusted
    \/ MaterializeClean
    \/ WriteGraph
    \/ AppendSpan
    \/ AppendEvent
    \/ AppendMetric
    \/ CrashAfterAppend
    \/ Finalize
    \/ ValidateManifest

SpecSession == InitDataOps /\ [][NextSession]_vars

NextAtomicWrite ==
    \/ WriteCreate
    \/ WriteAll
    \/ WriteRename
    \/ CrashWriter
    \/ FinalizeManifestLater

SpecAtomicWrite == InitDataOps /\ [][NextAtomicWrite]_vars

\* The sink calls of threads that append while the manifest is finalized
\* and validated.
ManifestSinkOps ==
    {[op |-> "append_span", path |-> SPANS_NDJSON],
     [op |-> "append_materialization", path |-> MATERIALIZATIONS_NDJSON],
     [op |-> "finalize_manifest", path |-> MANIFEST_JSON],
     [op |-> "validate_manifest", path |-> MANIFEST_JSON]}

SinkLockManifest(t) == SinkLockOf(ManifestSinkOps, t)

\* finalize_manifest, first part: the files are collected, measured and
\* hashed one after another under the lock.
SinkHashFiles(t) ==
    /\ producers[t].pc = "holding"
    /\ producers[t].call.op = "finalize_manifest"
    /\ producers' = [producers EXCEPT ![t] =
                         [pc |-> "hashed", call |-> producers[t].call,
                          entries |-> sorted_entries(bundle_files,
                                                     listed_files(bundle_files)),
                          acquired |-> Len(acquired)]]
    /\ UNCHANGED <<registry, lineage, bundle, runs, io_faults, last_mat, replay_vars,
                   writer, lock, acquired>>

\* finalize_manifest, second part: the manifest of those entries is written.
SinkWriteManifest(t) ==
    /\ producers[t].pc = "hashed"
    /\ runs' = [runs EXCEPT ![bundle.value.run_dir] =
                    write_json_pretty_atomic(@, MANIFEST_JSON,
                        ManifestV1(bundle.value.run_id, producers[t].entries))]
    /\ producers' = [producers EXCEPT ![t] = [pc |-> "returning", call |-> producers[t].call]]
    /\ last_mat' = [op |-> "sink.finalize_manifest", result |-> Ok,
                    acquired |-> producers[t].acquired]
    /\ UNCHANGED <<registry, lineage, bundle, io_faults, replay_vars, writer, lock,
                   acquired>>

\* sink.validate_manifest(); next_after_finalize says that no append took
\* the lock between the last finalize_manifest and this call.
SinkValidateManifest(t) ==
    /\ producers[t].pc = "holding"
    /\ producers[t].call.op = "validate_manifest"
    /\ producers' = [producers EXCEPT ![t].pc = "returning"]
    /\ last_mat' = [op |-> "sink.validate_manifest",
                    result |-> validate_manifest(bundle_files, bundle.value.run_id),
                    acquired |-> Len(acquired),
                    next_after_finalize |->
                        /\ last_mat.op \in {"sink.finalize_manifest", "sink.validate_manifest"}
                        /\ last_mat.acquired = Len(acquired)
                        /\ last_mat.op = "sink.validate_manifest" => last_mat.next_after_finalize]
    /\ UNCHANGED <<registry, lineage, bundle, runs, io_faults, replay_vars, writer, lock,
                   acquired>>

NextSinkManifest ==
    \E t \in Producers :
        \/ SinkLockManifest(t)
        \/ SinkWrite(t)
        \/ SinkHashFiles(t)
        \/ SinkWriteManifest(t)
        \/ SinkValidateManifest(t)
        \/ SinkUnlock(t)

SpecSinkManifest == InitDataOps /\ [][NextSinkManifest]_vars

\* ---- threads that use one sink and its sessions ----
\* The guard of a sink operation is dropped when the operation returns, on
\* the error path as on the Ok path.
release_leaked(lk, t) == lk

release(lk, t) == "free"

\* The sink operations a call makes, one after another: a sink call of its
\* own, materialize_node_outputs with one output, finalize.
SinkPrograms ==
    {<<"append_span">>, <<"validate_manifest">>,
     <<"append_materialization", "write_dataset_registry", "write_dataset_lineage">>,
     <<"write_dataset_registry", "write_dataset_lineage", "finalize_manifest">>}

ThreadCall(t) ==
    /\ producers[t].pc = "idle"
    /\ \E program \in SinkPrograms :
         producers' = [producers EXCEPT ![t] = [pc |-> "calling", rest |-> program]]
    /\ UNCHANGED <<registry, lineage, bundle, runs, io_faults, last_mat, replay_vars,
                   writer, lock, acquired>>

\* self.guard()? on a healthy mutex: the thread waits until the lock is free.
ThreadLock(t) ==
    /\ producers[t].pc = "calling"
    /\ guard(lock, t)
    /\ lock' = t
    /\ producers' = [producers EXCEPT ![t].pc = "holding"]
    /\ UNCHANGED <<registry, lineage, bundle, runs, io_faults, last_mat, replay_vars,
                   writer, acquired>>

\* self.guard()? on a poisoned mutex: lock() returns Err at once, guard maps
\* it to an io::Error and the call returns it.
ThreadLockPoisoned(t) ==
    /\ producers[t].pc = "calling"
    /\ lock = "poisoned"
    /\ producers' = [producers EXCEPT ![t] = [pc |-> "idle"]]
    /\ last_mat' = [op |-> "sink", thread |-> t, call |-> Head(producers[t].rest),
                    result |-> [tag |-> "Io", kind |-> "Other",
                                msg |-> "artifact sink mutex poisoned"]]
    /\ UNCHANGED <<registry, lineage, bundle, runs, io_faults, replay_vars, writer, lock,
                   acquired>>

\* The bundle operation under the guard returns Ok or an I/O error.
ThreadRun(t) ==
    /\ producers[t].pc = "holding"
    /\ \E result \in {Ok, io_error("Other", Head(producers[t].rest))} :
         producers' = [producers EXCEPT ![t] =
                           [pc |-> "returning", rest |-> producers[t].rest,
                            result |-> result]]
    /\ UNCHANGED <<registry, lineage, bundle, runs, io_faults, last_mat, replay_vars,
                   writer, lock, acquired>>

\* A panic under the guard: unwinding drops the guard and poisons the mutex.
ThreadPanic(t) ==
    /\ producers[t].pc = "holding"
    /\ lock' = "poisoned"
    /\ producers' = [producers EXCEPT ![t] = [pc |-> "panicked"]]
    /\ UNCHANGED <<registry, lineage, bundle, runs, io_faults, last_mat, replay_vars,
                   writer, acquired>>

\* The sink operation returns: the guard is dropped; the caller goes on
\* with its next sink operation, or returns on an error (?) or at the end.
ThreadReturn(t) ==
    /\ producers[t].pc = "returning"
    /\ lock' = release(lock, t)
    /\ producers' = [producers EXCEPT ![t] =
                         IF producers[t].result = Ok /\ Len(producers[t].rest) > 1
                         THEN [pc |-> "calling", rest |-> Tail(producers[t].rest)]
                         ELSE [pc |-> "idle"]]
    /\ last_mat' = [op |-> "sink", thread |-> t, call |-> Head(producers[t].rest),
                    result |-> producers[t].result]
    /\ UNCHANGED <<registry, lineage, bundle, runs, io_faults, replay_vars, writer,
                   acquired>>

NextSinkThreads ==
    \E t \in Producers :
        \/ ThreadCall(t)
        \/ ThreadLock(t)
        \/ ThreadLockPoisoned(t)
        \/ ThreadRun(t)
        \/ ThreadPanic(t)
        \/ ThreadReturn(t)

SpecSinkThreads == InitDataOps /\ [][NextSinkThreads]_vars

NextSink ==
    \E t \in Producers :
        \/ SinkLock(t)
        \/ SinkWrite(t)
        \/ SinkFinalizeManifest(t)
        \/ SinkUnlock(t)

SpecSink == InitDataOps /\ [][NextSink]_vars

-----------------------------------------------------------------------------
(* Properties of the authenticated envelope (SpecEnvelope)                  *)

EnvelopeCall == last_call.op = "verify_authenticated"

AbsDiff(a, b) == IF a >= b THEN a - b ELSE b - a

VersionBad(env) == env.version # <<0, 1>>

TimestampBad(env, now) == AbsDiff(now, env.timestamp) > 60

SignatureMissing(env) == ~env.signature.present

SignatureWrongLength(env) == env.signature.present /\ env.signature.len # 64

SignatureInvalid(env) ==
    /\ env.signature.present
    /\ env.signature.len = 64
    /\ MessageAuth_verify(env.sender, env.version, env.message_type, env.sequence,
                          env.timestamp, env.payload, env.signature.sig) # Ok

SignatureBad(env) ==
    SignatureMissing(env) \/ SignatureWrongLength(env) \/ SignatureInvalid(env)

\* The sequence of the call is a duplicate or too old for the sender's state
\* at the time of the call.
SequenceBad ==
    /\ last_call.tracked
    /\ \/ last_call.env.sequence \in last_call.before.recent_sequences
       \/ last_call.env.sequence + 16 < last_call.before.last_sequence

\* C1: verify_authenticated checks version, then timestamp, then signature
\* (presence, 64-byte length, Ed25519 validity), then the replay sequence, and
\* returns the error of the first stage that fails, whatever the later stages
\* would have said.
C1_FailFastOrder ==
    EnvelopeCall =>
        LET env == last_call.env
            res == last_call.result
        IN IF VersionBad(env)
           THEN res = [tag |-> "UnsupportedVersion", major |-> env.version[1],
                       minor |-> env.version[2]]
           ELSE IF TimestampBad(env, last_call.now)
           THEN res = [tag |-> "Replay",
                       inner |-> ExpiredErr(env.timestamp, last_call.now, 60)]
           ELSE IF SignatureMissing(env)
           THEN res = [tag |-> "MissingSignature"]
           ELSE IF SignatureWrongLength(env)
           THEN res = [tag |-> "InvalidSignatureLength", expected |-> 64,
                       found |-> env.signature.len]
           ELSE IF SignatureInvalid(env)
           THEN res.tag = "Crypto"
           ELSE IF SequenceBad
           THEN res.tag = "Replay" /\ res.inner.tag \in {"Replay", "TooOld"}
           ELSE res = Ok

\* An out-of-skew timestamp is reported as Expired although the signature is
\* missing and the sequence is a duplicate.
C1_Witness ==
    /\ EnvelopeCall
    /\ ~VersionBad(last_call.env)
    /\ TimestampBad(last_call.env, last_call.now)
    /\ SignatureBad(last_call.env)
    /\ SequenceBad
    /\ last_call.result.tag = "Replay"
    /\ last_call.result.inner.tag = "Expired"

\* C2: a verify_authenticated call that returns an error leaves the cache
\* size and every peer's last_sequence and recent_sequences as they were.
C2_FailureLeavesGuard ==
    [][(last_call'.op = "verify_authenticated" /\ last_call'.result # Ok) =>
          /\ Cardinality(DOMAIN peer_state') = Cardinality(DOMAIN peer_state)
          /\ peer_state' = peer_state]_vars

\* A forged envelope of a sender the guard does not track was rejected, and
\* the guard still tracks one other peer only.
C2_Witness ==
    /\ EnvelopeCall
    /\ last_call.result.tag = "Crypto"
    /\ ~last_call.tracked
    /\ last_call.env.sender \notin DOMAIN peer_state
    /\ Cardinality(DOMAIN peer_state) = 1

-----------------------------------------------------------------------------
(* Properties of the replay guard (Spec, SpecHistory)                       *)

SequenceCall == last_call.op = "validate_sequence"

\* What the guard would answer if the last call were repeated now.
Represented ==
    validate_sequence(peer_state, lru_order, capacity, last_call.peer,
                      last_call.seq).result

\* C3: replay idempotence: a (peer, seq) that validate_sequence has just
\* accepted is answered with Replay{peer, seq} when presented again.
C3_ReplayIdempotence ==
    (SequenceCall /\ last_call.result = Ok) =>
        Represented = ReplayErr(last_call.peer, last_call.seq)

\* C4: no (peer, seq) is accepted twice while the peer's entry stays in the
\* cache: a sequence accepted before is rejected as Replay or TooOld.
C4_NoDoubleAccept ==
    (SequenceCall /\ last_call.replayed) =>
        last_call.result.tag \in {"Replay", "TooOld"}

\* C5: for a tracked peer the verdict is Replay iff seq is in
\* recent_sequences, otherwise TooOld{last_seen = last_sequence} iff
\* seq + 16 < last_sequence (saturating), otherwise Ok; with 20 as the
\* frontier 15, 10 and 5 are accepted and 3 is TooOld{last_seen = 20}.
C5_Verdict ==
    (SequenceCall /\ last_call.tracked) =>
        LET b == last_call.before
            seq == last_call.seq
            sum == IF seq + 16 > U64_MAX THEN U64_MAX ELSE seq + 16
        IN /\ (last_call.result.tag = "Replay") <=> (seq \in b.recent_sequences)
           /\ (last_call.result.tag = "Replay") =>
                  last_call.result = ReplayErr(last_call.peer, seq)
           /\ (last_call.result.tag = "TooOld") <=>
                  (seq \notin b.recent_sequences /\ sum < b.last_sequence)
           /\ (last_call.result.tag = "TooOld") =>
                  last_call.result = TooOldErr(last_call.peer, seq, b.last_sequence)
           /\ last_call.result.tag \in {"Replay", "TooOld", "Ok"}
           /\ (b.last_sequence = 20 /\ seq \in {15, 10, 5} \ b.recent_sequences) =>
                  last_call.result = Ok
           /\ (b.last_sequence = 20 /\ seq = 3) =>
                  last_call.result = TooOldErr(last_call.peer, 3, 20)

\* 20, 15, 10 and 5 are in the window and 3 has just been rejected as
\* TooOld{last_seen = 20}.
C5_Witness ==
    /\ SequenceCall
    /\ last_call.peer = "pA"
    /\ last_call.seq = 3
    /\ last_call.result = TooOldErr("pA", 3, 20)
    /\ peer_state["pA"] = [last_sequence |-> 20, recent_sequences |-> {5, 10, 15, 20}]

\* C6: the first message of an unknown peer is accepted and sets
\* last_sequence = seq, recent_sequences = {seq}; a later accepted seq sets
\* last_sequence = max(last_sequence, seq) and recent_sequences to the old
\* set plus seq minus every entry <= last_sequence - 16 (saturating at 0); a
\* rejected call changes neither field.
C6_StateUpdate ==
    SequenceCall =>
        LET b == last_call.before
            seq == last_call.seq
            cur == peer_state[last_call.peer]
            top == IF seq > b.last_sequence THEN seq ELSE b.last_sequence
            floor == IF top >= 16 THEN top - 16 ELSE 0
        IN /\ last_call.peer \in DOMAIN peer_state
           /\ ~last_call.tracked =>
                  /\ last_call.result = Ok
                  /\ cur.last_sequence = seq
                  /\ cur.recent_sequences = {seq}
           /\ (last_call.tracked /\ last_call.result = Ok) =>
                  /\ cur.last_sequence = top
                  /\ cur.recent_sequences =
                        {s \in b.recent_sequences \cup {seq} : ~(s <= floor)}
           /\ (last_call.tracked /\ last_call.result # Ok) => cur = b

\* An accepted sequence moved the frontier and pruned an older entry.
C6_Witness ==
    /\ SequenceCall
    /\ last_call.tracked
    /\ last_call.result = Ok
    /\ last_call.seq > last_call.before.last_sequence
    /\ ~(last_call.before.recent_sequences \subseteq
            peer_state[last_call.peer].recent_sequences)

-----------------------------------------------------------------------------
(* Properties of DataOpsSession::materialize_node_outputs (SpecDataOps)     *)

MaterializeCall == last_mat.op = "materialize_node_outputs"

\* The step is a call of materialize_node_outputs.
MaterializeStep == last_mat'.op = "materialize_node_outputs"

HasDuplicateOutput(outputs) ==
    \E i \in DOMAIN outputs, j \in DOMAIN outputs :
        i < j /\ outputs[i].asset_key = outputs[j].asset_key

HasUndeclaredOutput(node, outputs) ==
    \E j \in DOMAIN outputs :
        \A i \in DOMAIN node.outputs : node.outputs[i].asset_key # outputs[j].asset_key

InputMissing(reg, node, i) == node.inputs[i].asset_key \notin DOMAIN reg

InputMalformed(reg, node, i) ==
    /\ ~InputMissing(reg, node, i)
    /\ reg[node.inputs[i].asset_key].fingerprint_v0.len # 64

InputBad(reg, node, i) == InputMissing(reg, node, i) \/ InputMalformed(reg, node, i)

PreValidationError(result) == result.tag \in {"InvalidInput", "InvalidData"}

\* The verdict the ordered checks give for a call on the registry reg.
OrderedVerdict(reg, node, outputs, result) ==
    IF HasDuplicateOutput(outputs)
    THEN result.tag = "InvalidInput" /\ result.msg = "duplicate output asset_key"
    ELSE IF HasUndeclaredOutput(node, outputs)
    THEN result.tag = "InvalidInput" /\ result.msg = "output not declared in node.outputs"
    ELSE IF \E i \in DOMAIN node.inputs : InputBad(reg, node, i)
    THEN \E i \in DOMAIN node.inputs :
            /\ InputBad(reg, node, i)
            /\ \A h \in 1 .. i - 1 : ~InputBad(reg, node, h)
            /\ PreValidationError(result)
            /\ result.asset_key = node.inputs[i].asset_key
            /\ IF InputMissing(reg, node, i)
               THEN result.tag = "InvalidInput" /\ result.msg = "missing input asset"
               ELSE result.tag = "InvalidData"
    ELSE ~PreValidationError(result)

\* C7: materialize_node_outputs reports the earliest violated check: a
\* duplicate output, then an undeclared output, then, input by input in
\* declaration order, a missing registry entry and then a malformed
\* fingerprint; with no check violated it reports none of them.
C7_CheckOrder ==
    [][MaterializeStep =>
          OrderedVerdict(registry, last_mat'.node, last_mat'.outputs, last_mat'.result)]_vars

\* A call that names an undeclared output twice while its first input is
\* missing is rejected for the duplicate.
C7_Witness ==
    /\ MaterializeCall
    /\ HasDuplicateOutput(last_mat.outputs)
    /\ HasUndeclaredOutput(last_mat.node, last_mat.outputs)
    /\ \E i \in DOMAIN last_mat.node.inputs : InputMissing(registry, last_mat.node, i)
    /\ last_mat.result.tag = "InvalidInput"
    /\ last_mat.result.msg = "duplicate output asset_key"

\* C8: a call rejected by a pre-validation check leaves the registry, the
\* lineage, registry.json, lineage.json and materializations.ndjson as they
\* were before the call.
C8_RejectionMutatesNothing ==
    [][(MaterializeStep /\ PreValidationError(last_mat'.result)) =>
          UNCHANGED <<registry, lineage, registry_json, lineage_json,
                      materializations_ndjson>>]_vars

\* A call is rejected for a missing input on a session that already holds
\* entries, edges and records.
C8_Witness ==
    /\ MaterializeCall
    /\ last_mat.result.tag = "InvalidInput"
    /\ last_mat.result.msg = "missing input asset"
    /\ DOMAIN registry # {}
    /\ DOMAIN lineage # {}
    /\ materializations_ndjson # << >>

\* The trust the outputs of a call get from the inputs as the registry reg
\* holds them and from the trust of the node.
ExpectedTrust(reg, node) ==
    IF \/ \E i \in DOMAIN node.inputs : reg[node.inputs[i].asset_key].trust = "Untrusted"
       \/ node.execution_trust # "Core"
    THEN "Untrusted" ELSE "Trusted"

\* C9: every entry a call writes is Untrusted if an input was Untrusted at the
\* start of the call or the node is not Core, and Trusted otherwise; every
\* record the call appends has unsafe_surface exactly when that trust is
\* Untrusted.
C9_TrustMonotonicity ==
    [][(MaterializeStep /\ last_mat'.inserted > 0) =>
          LET expect == ExpectedTrust(registry, last_mat'.node)
              outputs == last_mat'.outputs
          IN /\ \A j \in 1 .. last_mat'.inserted :
                    registry'[outputs[j].asset_key].trust = expect
             /\ Len(materializations_ndjson') =
                    Len(materializations_ndjson) + last_mat'.appended
             /\ \A j \in 1 .. last_mat'.appended :
                    LET mat == materializations_ndjson'[Len(materializations_ndjson) + j]
                    IN /\ mat.asset_key = outputs[j].asset_key
                       /\ mat.unsafe_surface = (expect = "Untrusted")]_vars

\* A Core node with one Trusted and one Untrusted input wrote an Untrusted
\* output and flagged its record.
C9_Witness ==
    /\ MaterializeCall
    /\ last_mat.result = Ok
    /\ last_mat.node.execution_trust = "Core"
    /\ \E i \in DOMAIN last_mat.node.inputs :
           registry[last_mat.node.inputs[i].asset_key].trust = "Trusted"
    /\ \E i \in DOMAIN last_mat.node.inputs :
           registry[last_mat.node.inputs[i].asset_key].trust = "Untrusted"
    /\ \A i \in DOMAIN last_mat.node.inputs, j \in DOMAIN last_mat.outputs :
           last_mat.node.inputs[i].asset_key # last_mat.outputs[j].asset_key
    /\ \A j \in DOMAIN last_mat.outputs :
           registry[last_mat.outputs[j].asset_key].trust = "Untrusted"
    /\ materializations_ndjson[Len(materializations_ndjson)].unsafe_surface

\* The edges a call is to create: one from the fingerprint each input had in
\* the registry reg to each output the call inserted in reg2.
ExpectedEdges(reg, reg2, call) ==
    {<<reg[call.node.inputs[i].asset_key].fingerprint_v0,
       reg2[call.outputs[j].asset_key].fingerprint_v0,
       hex_lower(node_id_from_key(call.node.node_key))>> :
         i \in DOMAIN call.node.inputs, j \in 1 .. call.inserted}

\* C10: the edges a call creates lead from the fingerprints the inputs had
\* before the call began, whichever entries the call itself overwrote.
C10_LineagePreMutation ==
    [][(MaterializeStep /\ last_mat'.inserted > 0) =>
          LET edges == ExpectedEdges(registry, registry', last_mat')
          IN /\ edges \subseteq DOMAIN lineage'
             /\ (DOMAIN lineage' \ DOMAIN lineage) \subseteq edges
             /\ \A k \in DOMAIN lineage' :
                    /\ lineage'[k].input_fingerprint_v0 = k[1]
                    /\ lineage'[k].output_fingerprint_v0 = k[2]
                    /\ k \in DOMAIN lineage \ edges => lineage'[k] = lineage[k]]_vars

\* An in-place call overwrote its input with its first output; the edge to
\* its second output leads from the fingerprint the input had before.
C10_Witness ==
    /\ MaterializeCall
    /\ last_mat.result = Ok
    /\ Len(last_mat.outputs) = 2
    /\ last_mat.outputs[1].asset_key = last_mat.node.inputs[1].asset_key
    /\ \E k \in DOMAIN lineage :
           /\ k[2] = registry[last_mat.outputs[2].asset_key].fingerprint_v0
           /\ k[1] # registry[last_mat.node.inputs[1].asset_key].fingerprint_v0
           /\ \A h \in DOMAIN lineage : h[2] = k[2] => h = k

-----------------------------------------------------------------------------
(* Properties of the persisted snapshots (SpecDataOps)                      *)

\* The entries datasets/registry.json holds.
PersistedEntries == {registry_json[i].item : i \in 2 .. Len(registry_json) - 1}

\* A descriptor that sanitize_source_descriptor_v0 accepts and returns as it is.
Sanitized(source) ==
    /\ sanitize_source_descriptor_v0(source).ok
    /\ sanitize_source_descriptor_v0(source).value = source

\* C11: every source descriptor persisted in datasets/registry.json is
\* sanitized: its userinfo is redacted and its URI and etag_or_version are
\* within their limits.
C11_PersistedSourceSanitized ==
    \A entry \in PersistedEntries : entry.source.some => Sanitized(entry.source.value)

-----------------------------------------------------------------------------
(* Per-peer isolation of the replay guard (Spec)                            *)

\* The call just made was for a peer other than P and kept the number of
\* tracked peers within the capacity.
OtherPeerCall(P) ==
    /\ last_call'.op = "validate_sequence"
    /\ last_call'.peer # P
    /\ Cardinality(DOMAIN peer_state \cup {last_call'.peer}) <= capacity

\* What the guard holds for P: nothing, or last_sequence and recent_sequences.
PeerView(ps, P) == IF P \in DOMAIN ps THEN Some(ps[P]) ELSE None

\* C20: while no more than capacity distinct peers are tracked, a
\* validate_sequence call for another peer changes neither P's last_sequence
\* and recent_sequences nor the outcome of any later call for P.
C20_PeerIsolation ==
    [][\A P \in Peers :
          OtherPeerCall(P) =>
              /\ PeerView(peer_state', P) = PeerView(peer_state, P)
              /\ \A seq \in SeqInputs :
                    validate_sequence(peer_state', lru_order', capacity, P, seq).result
                        = validate_sequence(peer_state, lru_order, capacity, P, seq).result]_vars

\* Both peers have used sequence 10 once, and pA presenting 10 again got Replay.
C20_Witness ==
    /\ last_call.op = "validate_sequence"
    /\ last_call.peer = "pA" /\ last_call.seq = 10
    /\ last_call.result = ReplayErr("pA", 10)
    /\ "pB" \in DOMAIN peer_state
    /\ peer_state["pB"] = PeerReplayState_new(10)
    /\ peer_state["pA"] = PeerReplayState_new(10)

-----------------------------------------------------------------------------
(* Snapshots follow the session (SpecDataOps)                               *)

\* The list items of a pretty-printed document, in file order.
FileItems(file) == [i \in 1 .. Len(file) - 2 |-> file[i + 1].item]

KeyIndex(asset_key) == CHOOSE i \in DOMAIN KeyOrder : KeyOrder[i] = asset_key

EdgeKey(edge) ==
    <<edge.input_fingerprint_v0, edge.output_fingerprint_v0, hex_lower(edge.node_id)>>

RegistryFileMatches ==
    LET datasets == FileItems(registry_json)
    IN /\ Len(datasets) = Cardinality(DOMAIN registry)
       /\ \A k \in DOMAIN registry : \E i \in DOMAIN datasets : datasets[i] = registry[k]
       /\ \A i, j \in DOMAIN datasets :
             i < j => KeyIndex(datasets[i].asset_key) < KeyIndex(datasets[j].asset_key)

LineageFileMatches ==
    LET edges == FileItems(lineage_json)
    IN /\ Len(edges) = Cardinality(DOMAIN lineage)
       /\ \A k \in DOMAIN lineage :
             \E i \in DOMAIN edges : edges[i] = lineage[k] /\ EdgeKey(edges[i]) = k
       /\ \A i, j \in DOMAIN edges :
             i < j => edge_key_less(EdgeKey(edges[i]), EdgeKey(edges[j]))

ReflushIdentical ==
    LET f == flush_snapshots(registry, lineage, registry_json, lineage_json, 0)
    IN f.registry_json = registry_json /\ f.lineage_json = lineage_json

LastCallOk ==
    /\ last_mat.op \in {"register_source", "materialize_node_outputs"}
    /\ last_mat.result.tag = "Ok"

\* C15: after every register_source or materialize_node_outputs call that
\* returns Ok, registry.json holds exactly the in-memory entries in ascending
\* asset_key order, lineage.json exactly the in-memory edges in ascending
\* (input_fp, output_fp, node_id) order, and flushing again rewrites the same
\* bytes.
C15_SnapshotsFollowSession ==
    LastCallOk => RegistryFileMatches /\ LineageFileMatches /\ ReflushIdentical

\* An Ok call left three entries and two edges on disk.
C15_Witness ==
    /\ LastCallOk
    /\ last_mat.op = "materialize_node_outputs"
    /\ Len(FileItems(registry_json)) = 3
    /\ Len(FileItems(lineage_json)) >= 2

-----------------------------------------------------------------------------
(* The manifest (SpecBundle)                                                *)

\* The entries of manifest.json as it is on disk.
ManifestEntries == from_reader(bundle_files[MANIFEST_JSON]).value.items

\* The eight baseline files of a v1 bundle.
BaselinePaths ==
    {<<"run.json">>, <<"graph.json">>, <<"spans.ndjson">>, <<"events.ndjson">>,
     <<"metrics.ndjson">>, <<"datasets", "registry.json">>, <<"datasets", "lineage.json">>,
     <<"datasets", "materializations.ndjson">>}

PathIndex(rel) == CHOOSE i \in DOMAIN PathOrder : PathOrder[i] = rel

\* The manifest lists exactly the files of the set, each once, with its
\* current size and digest, ascending by path, the baseline files as required.
ManifestCovers(files) ==
    LET entries == ManifestEntries
    IN /\ {entries[i].path : i \in DOMAIN entries} = {rel_path_string(p) : p \in files}
       /\ Len(entries) = Cardinality(files)
       /\ \A i \in DOMAIN entries :
             LET p == run_dir_join(entries[i].path)
             IN /\ p \in DOMAIN bundle_files
                /\ entries[i].bytes = Len(bundle_files[p])
                /\ entries[i].sha256 = hex_lower(sha256(bundle_files[p]))
                /\ entries[i].required = (entries[i].path \in BaselinePaths)
       /\ \A i, j \in DOMAIN entries :
             i < j => PathIndex(entries[i].path) < PathIndex(entries[j].path)

FinalizeManifestOk == last_mat.op = "finalize_manifest" /\ last_mat.result.tag = "Ok"

\* C16: after finalize_manifest succeeds, manifest.json lists exactly the
\* regular files under the run directory other than the bundle's own
\* manifest.json and files whose name ends in .tmp, each once, with current
\* size and SHA-256, in ascending path order, required for exactly the eight
\* baseline files.
C16_ManifestListsExactly ==
    FinalizeManifestOk =>
        ManifestCovers({p \in DOMAIN bundle_files : p # MANIFEST_JSON /\ ~p.tmp})

\* The step is a call of RunArtifactBundle::create.
CreateStep == last_mat'.op = "create"

CreatedBundleValid(run_id) ==
    /\ run_id \in DOMAIN runs'
    /\ \A rel \in BaselinePaths : run_dir_join(rel) \in DOMAIN runs'[run_id]
    /\ validate_manifest(runs'[run_id], run_id).tag = "Ok"

\* C17 as stated: create fails with AlreadyExists and changes nothing when
\* the run directory exists; when it succeeds the eight required files exist
\* and validate_manifest succeeds at once.
C17_CreateRefusesExisting ==
    [][CreateStep =>
          /\ last_mat'.run_id \in DOMAIN runs =>
                last_mat'.result.tag = "AlreadyExists" /\ runs' = runs
          /\ last_mat'.result.tag = "Ok" => CreatedBundleValid(last_mat'.run_id)]_vars

\* C17: the same for a valid (non-zero) run id; a zero run id is refused as
\* InvalidInput before the directory is looked at.
C17_CreateRefusesExistingValidId ==
    [][CreateStep =>
          /\ ~is_valid(last_mat'.run_id) =>
                last_mat'.result.tag = "InvalidInput" /\ runs' = runs
          /\ is_valid(last_mat'.run_id) /\ last_mat'.run_id \in DOMAIN runs =>
                last_mat'.result.tag = "AlreadyExists" /\ runs' = runs
          /\ last_mat'.result.tag = "Ok" => CreatedBundleValid(last_mat'.run_id)]_vars

\* create was refused on a directory that holds a bundle with an artifact.
C17_Witness ==
    /\ last_mat.op = "create"
    /\ last_mat.result.tag = "AlreadyExists"
    /\ bundle.some
    /\ MODEL_BIN \in DOMAIN bundle_files

\* C12: when the manifest validates and the content of a listed file is
\* changed (in place or with a change of size) or the file is deleted,
\* validate_manifest returns an error.
C12_TamperEvidence ==
    [][(/\ last_mat'.op = "tamper"
        /\ validate_manifest(bundle_files, bundle.value.run_id).tag = "Ok")
          => validate_manifest(bundle_files', bundle.value.run_id).tag # "Ok"]_vars

\* One byte of a listed file was changed in place and validation reports the
\* digest.
C12_Witness ==
    /\ last_mat.op = "tamper"
    /\ ~last_mat.deleted /\ ~last_mat.resized
    /\ validate_manifest(bundle_files, bundle.value.run_id)
           = io_error("InvalidData", "sha256 mismatch")

-----------------------------------------------------------------------------
(* finalize (SpecSession)                                                   *)

FinalizeOk == last_mat.op = "finalize" /\ last_mat.result.tag = "Ok"

\* C13: after finalize() returns Ok and until the next write to the run
\* directory, validate_manifest() succeeds, whatever calls came before.
C13_FinalizeValidates ==
    /\ FinalizeOk => validate_manifest(bundle_files, bundle.value.run_id).tag = "Ok"
    /\ last_mat.op = "validate_manifest" /\ last_mat.finalized =>
           last_mat.result.tag = "Ok"

\* validate_manifest was called after a finalize that had snapshots, records
\* of every kind and a rewritten graph to cover.
C13_Witness ==
    /\ last_mat.op = "validate_manifest"
    /\ last_mat.finalized
    /\ Len(FileItems(registry_json)) >= 1
    /\ ndjson_records(bundle_files) >= 2
    /\ Len(FileItems(bundle_files[GRAPH_JSON])) = 1

\* The last record materializations.ndjson holds for an asset key.
LatestRecord(asset_key) ==
    LET at == {i \in DOMAIN materializations_ndjson :
                  materializations_ndjson[i].asset_key = asset_key}
    IN materializations_ndjson[CHOOSE i \in at : \A j \in at : j <= i]

RecordedKeys ==
    {materializations_ndjson[i].asset_key : i \in DOMAIN materializations_ndjson}

\* C14: a finalize() after a crash that left a materialization record newer
\* than the snapshots reconciles them: every asset_key with a record has a
\* registry.json entry carrying the fingerprint of its latest record, and
\* validate_manifest succeeds.
C14_CrashReconciliation ==
    FinalizeOk /\ last_mat.after_crash =>
        /\ \A key \in RecordedKeys :
              \E entry \in PersistedEntries :
                 /\ entry.asset_key = key
                 /\ entry.fingerprint_v0 = LatestRecord(key).fingerprint_v0
        /\ validate_manifest(bundle_files, bundle.value.run_id).tag = "Ok"

-----------------------------------------------------------------------------
(* Atomic JSON writes (SpecAtomicWrite)                                     *)

\* C18: at every step of an atomic write and after a crash at any step, the
\* destination holds the complete previous content or the complete new
\* content; a <name>.tmp left behind is not listed by a later
\* finalize_manifest.
C18_AtomicWrite ==
    /\ writer.pc \in {"writing", "crashed", "done"} =>
           /\ writer.path \in DOMAIN bundle_files
           /\ bundle_files[writer.path] \in {writer.prev, writer.bytes}
    /\ FinalizeManifestOk =>
           \A i \in DOMAIN ManifestEntries : ~run_dir_join(ManifestEntries[i].path).tmp

\* A writer died with part of the new registry.json written to its .tmp, and
\* a later finalize_manifest succeeded with that file still there.
C18_Witness ==
    /\ FinalizeManifestOk
    /\ io_faults = 1
    /\ tmp_path(REGISTRY_JSON) \in DOMAIN bundle_files
    /\ Len(bundle_files[tmp_path(REGISTRY_JSON)]) \in 1 .. 2

-----------------------------------------------------------------------------
(* The sink under concurrent producers (SpecSink)                           *)

\* The producers inside a sink call.
InSinkCall == {t \in Producers : producers[t].pc # "idle"}

\* The records that took the lock to be appended to a file, in that order.
AcquiredFor(path) ==
    LET a == SelectSeq(acquired, LAMBDA x : x.path = path)
    IN [i \in DOMAIN a |-> a[i].record]

\* Every line of the file is one whole record: its bytes come in pairs, the
\* record and its newline, except for a line that is being written.
WholeLines(file) ==
    \A i \in DOMAIN file :
        IF i % 2 = 1 THEN file[i].chunk = "head"
        ELSE file[i].chunk = "newline" /\ file[i].record = file[i - 1].record

\* The records of the lines of a file, in file order.
LineRecords(file) == [i \in 1 .. (Len(file) + 1) \div 2 |-> file[2 * i - 1].record]

\* The file holds the records in the order they took the lock; only the
\* record of a call that still holds the lock may be missing or incomplete.
InLockOrder(path) ==
    LET on_disk == LineRecords(bundle_files[path])
        wanted == AcquiredFor(path)
    IN /\ Len(on_disk) <= Len(wanted)
       /\ \A i \in DOMAIN on_disk : on_disk[i] = wanted[i]
       /\ Len(on_disk) >= Len(wanted) - 1
       /\ InSinkCall = {} => /\ Len(on_disk) = Len(wanted)
                              /\ Len(bundle_files[path]) = 2 * Len(wanted)

\* C19: the sink's operations exclude one another: at most one producer is
\* inside a sink call, every line of each NDJSON file is one complete
\* record, none is lost, and the records are on disk in the order their
\* append calls acquired the lock, which is program order for each producer.
C19_SinkExclusive ==
    /\ Cardinality(InSinkCall) <= 1
    /\ \A path \in {SPANS_NDJSON, EVENTS_NDJSON} :
          /\ WholeLines(bundle_files[path])
          /\ InLockOrder(path)
          /\ \A i, j \in DOMAIN AcquiredFor(path) :
                (i < j /\ AcquiredFor(path)[i].producer = AcquiredFor(path)[j].producer)
                    => AcquiredFor(path)[i].n < AcquiredFor(path)[j].n

\* Both producers appended to spans.ndjson, t2 first, while t1 had asked too.
C19_Witness ==
    /\ InSinkCall = {}
    /\ Len(bundle_files[SPANS_NDJSON]) = 4
    /\ bundle_files[SPANS_NDJSON][1].record.producer = "t2"
    /\ bundle_files[SPANS_NDJSON][3].record.producer = "t1"

-----------------------------------------------------------------------------
(* Cache pressure (SpecLru).                                                *)

cache_size(ps) == Cardinality(DOMAIN ps)

\* The entry LruCache::put drops when the cache is full: the tail of the
\* recency list.
LeastRecentlyUsed == lru_order[Len(lru_order)]

UnseenPeerCall ==
    /\ last_call'.op = "validate_sequence"
    /\ last_call'.peer \notin DOMAIN peer_state

\* C21: the cache never tracks more than capacity peers; a first message from
\* an unseen peer at full capacity evicts exactly the least recently used
\* peer; and a message from a peer that is not tracked (never seen, or
\* evicted) is accepted as first-seen, whatever was accepted from it before.
C21_BoundedLru ==
    [][/\ cache_size(peer_state') <= capacity
       /\ (UnseenPeerCall /\ cache_size(peer_state) = capacity) =>
              DOMAIN peer_state' =
                  (DOMAIN peer_state \ {LeastRecentlyUsed}) \cup {last_call'.peer}
       /\ (UnseenPeerCall /\ cache_size(peer_state) < capacity) =>
              DOMAIN peer_state' = DOMAIN peer_state \cup {last_call'.peer}
       /\ UnseenPeerCall =>
              /\ last_call'.result = Ok
              /\ peer_state'[last_call'.peer]
                    = PeerReplayState_new(last_call'.seq)
              /\ \A q \in DOMAIN peer_state' \ {last_call'.peer} :
                    peer_state'[q] = peer_state[q]]_vars

\* On a guard of capacity 2 holding two other peers, an evicted peer repeated
\* a sequence that had been accepted from it before, and it was accepted again.
C21_Witness ==
    /\ capacity = 2
    /\ last_call.op = "validate_sequence"
    /\ ~last_call.tracked
    /\ last_call.replayed
    /\ last_call.result = Ok
    /\ cache_size(peer_state) = 2
    /\ Len(lru_order) = 2

-----------------------------------------------------------------------------
(* Timestamp freshness (SpecTimestamp).                                     *)

\* |now - ts| <= skew over the integers.
WithinSkew(ts, now, skew) == ts - skew <= now /\ now <= ts + skew

\* C22: check_timestamp_only(ts, now) returns Ok iff |now - ts| <=
\* max_clock_skew_secs for all u32 values, both bounds inclusive, and
\* Expired{ts, now, window} otherwise; the call does not change the guard.
C22_TimestampWindow ==
    [][last_call'.op = "check_timestamp_only" =>
          /\ (last_call'.result = Ok)
                <=> WithinSkew(last_call'.ts, last_call'.now, max_clock_skew_secs)
          /\ last_call'.result # Ok =>
                last_call'.result
                    = ExpiredErr(last_call'.ts, last_call'.now, max_clock_skew_secs)
          /\ UNCHANGED <<capacity, max_clock_skew_secs, peer_state, lru_order>>]_vars

\* A guard that tracks a peer judged a timestamp of u32::MAX at now = 0, where
\* a wrapped difference would be 1, and rejected it.
C22_Witness ==
    /\ last_call.op = "check_timestamp_only"
    /\ last_call.ts = U32_MAX
    /\ last_call.now = 0
    /\ max_clock_skew_secs = DEFAULT_MAX_CLOCK_SKEW_SECS
    /\ last_call.result = ExpiredErr(U32_MAX, 0, DEFAULT_MAX_CLOCK_SKEW_SECS)
    /\ DOMAIN peer_state # {}

-----------------------------------------------------------------------------
(* Sequence window at the ends of the u64 range (SpecEdges).                *)

\* The verdict over the unbounded integers.
UnboundedVerdict(st, seq) ==
    IF seq \in st.recent_sequences THEN "Replay"
    ELSE IF seq + SEQUENCE_TOLERANCE_WINDOW < st.last_sequence THEN "TooOld"
    ELSE "Ok"

InU64(n) == n \in 0 .. U64_MAX

\* C23: for every per-peer state and every seq in 0 ..= u64::MAX the verdict
\* of validate_sequence is Ok, Replay or TooOld and equals the verdict computed
\* with unbounded integers, and every value the call leaves is a u64.
C23_WindowSafety ==
    \A P \in DOMAIN peer_state :
        /\ InU64(peer_state[P].last_sequence)
        /\ \A s \in peer_state[P].recent_sequences : InU64(s)
        /\ \A seq \in EdgeSeqs :
              LET r == validate_and_update(peer_state[P], seq, P)
              IN /\ r.result.tag \in {"Ok", "Replay", "TooOld"}
                 /\ r.result.tag = UnboundedVerdict(peer_state[P], seq)
                 /\ InU64(r.state.last_sequence)
                 /\ \A s \in r.state.recent_sequences : InU64(s)

\* With last_sequence = u64::MAX, u64::MAX - 3 was accepted as new, and a
\* sequence more than 16 below the frontier is TooOld.
C23_Witness ==
    /\ last_call.op = "validate_sequence"
    /\ last_call.seq = U64_MAX - 3
    /\ last_call.tracked
    /\ last_call.before.last_sequence = U64_MAX
    /\ last_call.result = Ok
    /\ validate_and_update(peer_state[last_call.peer], U64_MAX - 17,
                           last_call.peer).result.tag = "TooOld"

-----------------------------------------------------------------------------
(* Signature round trip and binding (SpecAuth).                             *)

SignVerifyCall == last_call.op = "sign_verify"

\* The envelope carries the signature its signer made over its own fields.
SignedBy(k, env) ==
    /\ env.signature.present
    /\ env.signature.len = 64
    /\ env.signature.sig.form = "ed25519"
    /\ env.signature.sig.key = k

\* C24: a signature made by key k over (version, message_type, sequence,
\* timestamp, payload) verifies under k's raw public key for exactly that
\* tuple and fails for any other sender key and for any changed component; an
\* envelope whose sender is the hashed PeerId of its signer fails at the
\* signature step.
C24_RoundTripAndBinding ==
    /\ SignVerifyCall =>
          ((last_call.result = Ok)
              <=> /\ last_call.public_key = KeyPublic[last_call.k]
                  /\ last_call.presented = last_call.signed)
    /\ (/\ last_call.op = "verify_authenticated"
        /\ last_call.env.sender = HashedPeerIdA
        /\ SignedBy("kA", last_call.env)) =>
           last_call.result.tag = "Crypto"
    /\ (/\ last_call.op = "verify_authenticated"
        /\ last_call.env.sender = KeyPublic["kA"]
        /\ SignedBy("kA", last_call.env)) =>
           last_call.result.tag # "Crypto"

\* The guard tracks kA's raw public key from an accepted envelope; the next
\* envelope of kA named the hashed PeerId as sender and failed at the
\* signature step, leaving the guard with that one peer.
C24_Witness ==
    /\ last_call.op = "verify_authenticated"
    /\ last_call.env.sender = HashedPeerIdA
    /\ SignedBy("kA", last_call.env)
    /\ last_call.result.tag = "Crypto"
    /\ DOMAIN peer_state = {KeyPublic["kA"]}

-----------------------------------------------------------------------------
(* Repeated materializations (SpecDataOps).                                 *)

OutputKeys(outputs) == {outputs[i].asset_key : i \in DOMAIN outputs}

InputKeys(node) == {node.inputs[i].asset_key : i \in DOMAIN node.inputs}

\* The step repeats the call before it: the same node and the same outputs,
\* both calls Ok, and no input was rewritten by the first call (nothing else
\* happened between the two).
RepeatedMaterialization ==
    /\ MaterializeCall
    /\ last_mat.result = Ok
    /\ MaterializeStep
    /\ last_mat'.result = Ok
    /\ last_mat'.node = last_mat.node
    /\ last_mat'.outputs = last_mat.outputs
    /\ OutputKeys(last_mat.outputs) \cap InputKeys(last_mat.node) = {}

\* One edge per distinct (input_fingerprint, output_fingerprint, node_id), in
\* memory and in lineage.json.
OneEdgePerKey ==
    /\ \A k \in DOMAIN lineage : EdgeKey(lineage[k]) = k
    /\ \A e, f \in {lineage[k] : k \in DOMAIN lineage} : EdgeKey(e) = EdgeKey(f) => e = f
    /\ LET edges == FileItems(lineage_json)
       IN \A i, j \in DOMAIN edges : EdgeKey(edges[i]) = EdgeKey(edges[j]) => i = j

\* C25: lineage edges are deduplicated: there is at most one edge per
\* (input_fingerprint, output_fingerprint, node_id), and a repeated
\* materialize_node_outputs with the same node, the same outputs and unchanged
\* inputs adds no edge and leaves the registry unchanged, while it appends one
\* materialization record per output.
C25_LineageDeduplicated ==
    [][/\ OneEdgePerKey'
       /\ RepeatedMaterialization =>
             /\ lineage' = lineage
             /\ registry' = registry
             /\ lineage_json' = lineage_json
             /\ registry_json' = registry_json
             /\ Len(materializations_ndjson') =
                   Len(materializations_ndjson) + Len(last_mat'.outputs)
             /\ \A j \in DOMAIN last_mat'.outputs :
                   materializations_ndjson'[Len(materializations_ndjson) + j].asset_key
                       = last_mat'.outputs[j].asset_key]_vars

\* The same output was materialized twice by the same node: two records with
\* one fingerprint, one edge.
C25_Witness ==
    /\ MaterializeCall
    /\ last_mat.result = Ok
    /\ Len(materializations_ndjson) = 2
    /\ materializations_ndjson[1].asset_key = materializations_ndjson[2].asset_key
    /\ materializations_ndjson[1].fingerprint_v0 = materializations_ndjson[2].fingerprint_v0
    /\ materializations_ndjson[1].node_id = materializations_ndjson[2].node_id
    /\ Cardinality(DOMAIN lineage) = 1
    /\ Len(FileItems(lineage_json)) = 1

-----------------------------------------------------------------------------
(* The artifact reader (SpecReport).                                        *)

LoadReportCall == last_mat.op = "load_report"

\* The reads of graph, registry, lineage and the NDJSON files.
DataReads == {ReportReads[i].name : i \in DOMAIN ReportReads}

IsNodeUnsafeCall == last_mat.op = "is_node_unsafe"

MissingInput(node, datasets) ==
    \E i \in DOMAIN node.inputs :
        \A j \in DOMAIN datasets : datasets[j].asset_key # node.inputs[i].asset_key

UntrustedInput(node, datasets) ==
    \E i \in DOMAIN node.inputs :
        \E j \in DOMAIN datasets :
            /\ datasets[j].asset_key = node.inputs[i].asset_key
            /\ datasets[j].trust = "Untrusted"

C27_UnsafeIff ==
    IsNodeUnsafeCall =>
        (last_mat.unsafe <=>
            \/ last_mat.node.execution_trust # "Core"
            \/ MissingInput(last_mat.node, last_mat.datasets)
            \/ UntrustedInput(last_mat.node, last_mat.datasets))

\* ---------------------------------------------------------------------
\* C28.  parse_hex of TraceId, RunId, NodeId and SpanId accepts exactly the
\* strings of the exact length (32 or 16 characters) made only of lowercase
\* hex digits that are not all zeros; a wrong length is InvalidLength, a
\* non-hex character or an uppercase hex digit is InvalidHex, and an all-zero
\* value is AllZeroInvalid.
ParseHexCall == last_mat.op = "parse_hex"

ExactLength == Len(last_mat.s) = 2 * IdWidth[last_mat.id]

LowercaseHex == \A i \in DOMAIN last_mat.s : in_range(HEX_LOWER, last_mat.s[i])

AllZeros == \A i \in DOMAIN last_mat.s : last_mat.s[i] = "0"

C28_ParseHexContract ==
    ParseHexCall =>
        /\ last_mat.result.tag = "Ok" <=> ExactLength /\ LowercaseHex /\ ~AllZeros
        /\ ~ExactLength => last_mat.result.tag = "InvalidLength"
        /\ ExactLength /\ ~LowercaseHex => last_mat.result.tag = "InvalidHex"
        /\ ExactLength /\ LowercaseHex /\ AllZeros => last_mat.result.tag = "AllZeroInvalid"

\* ---------------------------------------------------------------------
\* C29.  For n updates and trim count t = floor(n * trim_ratio) with
\* n > 2t, when at most t of the values at a coordinate are Byzantine, the
\* TrimmedMean output at that coordinate lies between the minimum and the
\* maximum of the honest values at that coordinate.
AggregateCall == last_mat.op = "aggregate"

TrimCount == (Len(last_mat.updates) * last_mat.aggregator.trim_ratio) \div 100

HonestValues ==
    {last_mat.updates[u].gradients[1] :
        u \in DOMAIN last_mat.updates \ last_mat.byzantine}

WithinHonestRange(out) ==
    /\ is_finite(out.sum)
    /\ \E lo \in HonestValues : lo * out.len <= out.sum
    /\ \E hi \in HonestValues : out.sum <= hi * out.len

C29_TrimmedMeanBounds ==
    /\ AggregateCall
    /\ Len(last_mat.updates) > 2 * TrimCount
    /\ Cardinality(last_mat.byzantine) <= TrimCount
    => /\ last_mat.result.tag = "Ok"
       /\ WithinHonestRange(last_mat.result.value[1])

\* ---------------------------------------------------------------------
\* C30.  materialize_node_outputs is all-or-nothing for every error: when
\* it returns Err, a failed append of a materialization record or a failed
\* snapshot flush included, the in-memory registry and lineage and the files
\* registry.json, lineage.json and materializations.ndjson are as they were
\* before the call.
C30_AllOrNothing ==
    [][MaterializeStep /\ last_mat'.result.tag # "Ok" =>
          /\ registry' = registry
          /\ lineage' = lineage
          /\ registry_json' = registry_json
          /\ lineage_json' = lineage_json
          /\ materializations_ndjson' = materializations_ndjson]_vars

\* ---------------------------------------------------------------------
\* C31.  Trust taint is closed under lineage in every session state: for
\* every lineage edge, if some registry entry with the edge's input
\* fingerprint is Untrusted, then every registry entry with the edge's
\* output fingerprint is Untrusted.
EntriesWithFingerprint(fp) ==
    {registry[k] : k \in {a \in DOMAIN registry : registry[a].fingerprint_v0 = fp}}

C31_TaintClosedUnderLineage ==
    \A k \in DOMAIN lineage :
        (\E e \in EntriesWithFingerprint(lineage[k].input_fingerprint_v0) :
            e.trust = "Untrusted")
        => \A e \in EntriesWithFingerprint(lineage[k].output_fingerprint_v0) :
              e.trust = "Untrusted"

\* ---------------------------------------------------------------------
\* C32.  Registry persistence is monotone: an asset_key that has an entry
\* in datasets/registry.json has one in every later version of the file, for
\* any sequence of register_source, materialize_node_outputs and finalize
\* calls, also by a second DataOpsSession on the same sink or bundle.
C32_RegistryPersistenceMonotone ==
    [][\A e \in PersistedEntries :
          \E f \in PersistedEntries' : f.asset_key = e.asset_key]_vars

\* ---------------------------------------------------------------------
\* C33.  Lineage edges never dangle: in every session state the input and
\* the output fingerprint of each lineage edge are the fingerprint_v0 of
\* entries currently in the registry.
RegistryFingerprints == {registry[k].fingerprint_v0 : k \in DOMAIN registry}

ReleasingFinalize(t) ==
    /\ producers[t].pc = "returning"
    /\ producers[t].call.op = "finalize_manifest"

ManifestMatchesFiles ==
    /\ ManifestEntries = sorted_entries(bundle_files, listed_files(bundle_files))
    /\ validate_manifest(bundle_files, bundle.value.run_id).tag = "Ok"

C34_FinalizeUnderLock ==
    /\ \A t \in Producers :
          /\ producers[t].pc = "hashed" => producers[t].acquired = Len(acquired)
          /\ ReleasingFinalize(t) => ManifestMatchesFiles
    /\ last_mat.op = "sink.validate_manifest" /\ last_mat.next_after_finalize =>
          last_mat.result.tag = "Ok"

\* A span was appended, the manifest was finalized after it, and the
\* validation that took the lock next succeeded.
C34_Witness ==
    /\ last_mat.op = "sink.validate_manifest"
    /\ last_mat.next_after_finalize
    /\ last_mat.result.tag = "Ok"
    /\ Len(acquired) > 0
    /\ Len(bundle_files[SPANS_NDJSON]) = 2

\* ---------------------------------------------------------------------
\* C35.  The artifact sink cannot deadlock: a thread holds the mutex only
\* inside one sink operation and has released it when the operation has
\* returned, also on an I/O error; sessions make their sink calls one after
\* another with the lock free in between; in no reachable state are all
\* threads blocked; and on a poisoned mutex an operation returns an error
\* instead of blocking.
InsideSinkOperation(t) == producers[t].pc \in {"holding", "returning"}

\* t waits in guard() for a mutex another call holds.
Blocked(t) == producers[t].pc = "calling" /\ lock \notin {"free", "poisoned"}

LockDiscipline ==
    /\ \A t \in Producers : lock = t <=> InsideSinkOperation(t)
    /\ ~ \A t \in Producers : Blocked(t)
    /\ \A t \in Producers : Blocked(t) => InsideSinkOperation(lock)
    /\ lock = "poisoned" =>
          /\ \A t \in Producers : ~InsideSinkOperation(t)
          /\ ENABLED NextSinkThreads \/ \A t \in Producers : producers[t].pc = "panicked"

\* A step of a thread that asks for the poisoned mutex.
PoisonedGuardStep(t) ==
    /\ lock = "poisoned"
    /\ producers[t].pc = "calling"
    /\ producers'[t] # producers[t]

C35_NoDeadlock ==
    /\ []LockDiscipline
    /\ [][\A t \in Producers :
             PoisonedGuardStep(t) =>
                /\ producers'[t].pc = "idle"
                /\ last_mat'.thread = t
                /\ last_mat'.result.tag = "Io"
                /\ lock' = "poisoned"]_vars

\* t2 waited for the lock while t1 was inside the second sink operation of
\* a call whose first operation had returned.
C35_Witness ==
    /\ Blocked("t2")
    /\ lock = "t1"
    /\ Len(producers["t1"].rest) = 2
    /\ last_mat.op = "sink" /\ last_mat.thread = "t1" /\ last_mat.result = Ok

\* ---------------------------------------------------------------------
\* C36.  Only accepted messages refresh a peer's LRU recency: a
\* validate_sequence call rejected with Replay or TooOld does not change the
\* eviction order of the cache, that is, which peer is evicted when the next
\* unseen peer arrives at full capacity.
EvictionOrder(order) == [i \in DOMAIN order |-> order[Len(order) + 1 - i]]

C36_RejectionKeepsRecency ==
    [][(/\ last_call'.op = "validate_sequence"
        /\ last_call'.result.tag \in {"Replay", "TooOld"})
       => EvictionOrder(lru_order') = EvictionOrder(lru_order)]_vars

\* ---------------------------------------------------------------------
\* C37.  Prediction agrees with materialization: when every input of the
\* node is registered, the fingerprint materialize_node_outputs stores for
\* each output equals the one predict_output_fingerprints returns for it,
\* given the inputs' registry fingerprints before the call in node.inputs
\* order; and the prediction changes no registry, lineage or file.
InputsRegistered(reg, node) ==
    \A i \in DOMAIN node.inputs :
        /\ node.inputs[i].asset_key \in DOMAIN reg
        /\ hex_to_bytes(reg[node.inputs[i].asset_key].fingerprint_v0).some

PredictedFor(reg, node, outputs) ==
    predict_output_fingerprints(node,
        [i \in DOMAIN outputs |-> OutputSpecCore(outputs[i])],
        registry_upstream_fps(reg, node))

C37_PredictionAgrees ==
    [][/\ (MaterializeStep /\ InputsRegistered(registry, last_mat'.node)) =>
             \A i \in 1 .. last_mat'.inserted :
                /\ registry'[last_mat'.outputs[i].asset_key].fingerprint_v0
                      = PredictedFor(registry, last_mat'.node, last_mat'.outputs)[i].fingerprint_v0
                /\ PredictedFor(registry, last_mat'.node, last_mat'.outputs)[i].asset_key
                      = last_mat'.outputs[i].asset_key
                /\ i <= last_mat'.appended =>
                      materializations_ndjson'[Len(materializations_ndjson) + i].fingerprint_v0
                         = PredictedFor(registry, last_mat'.node, last_mat'.outputs)[i].fingerprint_v0
       /\ last_mat'.op = "predict_output_fingerprints" =>
             /\ registry' = registry
             /\ lineage' = lineage
             /\ runs' = runs]_vars

\* The join of clean and raw was materialized: two upstream fingerprints in
\* node.inputs order, one output stored.
C37_Witness ==
    /\ MaterializeCall
    /\ last_mat.result.tag = "Ok"
    /\ Len(last_mat.node.inputs) = 2
    /\ last_mat.inserted = 1
    /\ Right \in DOMAIN registry

-----------------------------------------------------------------------------
(* The per-peer window stays bounded (SpecWindow)                           *)

WindowBounded(st) ==
    /\ st.last_sequence \in st.recent_sequences
    /\ Cardinality(st.recent_sequences) <= 16
    /\ \A s \in st.recent_sequences :
          s <= st.last_sequence /\ st.last_sequence - s < 16

\* C38: for every tracked peer recent_sequences contains last_sequence, has
\* at most 16 elements, and every element s has s <= last_sequence and
\* last_sequence - s < 16; last_sequence never decreases while the peer
\* stays in the cache.
C38_BoundedWindow ==
    /\ [](\A p \in DOMAIN peer_state : WindowBounded(peer_state[p]))
    /\ [][\A p \in DOMAIN peer_state \cap DOMAIN peer_state' :
             peer_state'[p].last_sequence >= peer_state[p].last_sequence]_vars

\* The window was full (1 to 16) when 17 was accepted: 1 was pruned and the
\* window is full again.
C38_Witness ==
    /\ SequenceCall
    /\ last_call.peer = "pA" /\ last_call.seq = 17
    /\ last_call.result = Ok
    /\ last_call.before = [last_sequence |-> 16, recent_sequences |-> 1 .. 16]
    /\ peer_state["pA"] = [last_sequence |-> 17, recent_sequences |-> 2 .. 17]

=============================================================================
